---------------------------- MODULE Spec2Model ----------------------------
(* A model of the editing core of rvim: the two document buffers          *)
(* (editor::Buffer and domain::TextBuffer), the two mode managers, and    *)
(* the two control loops (Editor in main.rs, EditorService).              *)
(*                                                                        *)
(* Conventions.  A Rust String is a sequence of one-character strings;    *)
(* every character of the model is a one-byte character, so String::len   *)
(* (bytes) is Len.  Rows and columns are 0-based as in the source, while  *)
(* TLA+ sequences are 1-based: line `row` of a buffer is lines[row + 1].  *)
(* Option<T> is the empty sequence (None) or a one-element sequence.      *)
(* A method of the source is an operator from the object's value (and     *)
(* the arguments) to a record [ok, err, buf/..., ret]; an action of a     *)
(* specification is one call of a method.                                 *)
EXTENDS Integers, Sequences, FiniteSets, TLC

VARIABLES
    buffer,      \* editor::Buffer under test
    last,        \* the last call made on the object under test: its name, its result,
                 \* the object before it
    unreverted,  \* number of actions applied since the last mark_saved and not reverted
    save_point,  \* length of the undo stack at the last mark_saved (0 at creation), -1 once
                 \* an edit has replaced the history that led to the saved text
    rt,          \* bookkeeping of an insert_char^n ; undo^n run
    dmode,       \* domain::ModeManager under test
    vmode,       \* vim::ModeManager under test
    service,     \* the EditorService (its EditorState and the mode of its VimBindings)
    editor,      \* the Editor of main.rs
    disk,        \* the file of the editor: << >> when absent, <<text>> otherwise
    run          \* the run loop: which front end runs, and whether it still reads keys

bufVars == <<buffer, unreverted, save_point, rt>>
modeVars == <<dmode, vmode>>
loopVars == <<service, editor, disk, run>>
vars == <<buffer, last, unreverted, save_point, rt, dmode, vmode, service, editor, disk, run>>

-----------------------------------------------------------------------------
(* Bounds of the model.                                                   *)

MaxLines == 2
MaxLen == 2
MaxHist == 2
MaxInserts == 3
LoopHist == 1

Chars == {"a", "b"}
NL == "\n"
CR == "\r"

-----------------------------------------------------------------------------
(* Strings and vectors.                                                   *)

\* String::insert / Vec::insert at 0-based index i
InsertAt(s, i, x) == SubSeq(s, 1, i) \o <<x>> \o SubSeq(s, i + 1, Len(s))

\* String::remove / Vec::remove at 0-based index i
RemoveAt(s, i) == SubSeq(s, 1, i) \o SubSeq(s, i + 2, Len(s))

\* A String is its UTF-8 bytes and its columns are byte offsets.  A character
\* of Chars is one byte; a character of WideChars is two, written as the
\* character followed by ContByte.
WideChars == {"é"}
ContByte == "~"

\* char::to_string
Utf8(ch) == IF ch \in WideChars THEN <<ch, ContByte>> ELSE <<ch>>

\* str::is_char_boundary
IsCharBoundary(s, i) == i = 0 \/ i = Len(s) \/ (i < Len(s) /\ s[i + 1] # ContByte)

\* String::insert(i, ch) where i is a character boundary (it panics elsewhere)
StringInsert(s, i, ch) == SubSeq(s, 1, i) \o Utf8(ch) \o SubSeq(s, i + 1, Len(s))

\* String::remove(i) where i is a character boundary below len (it panics
\* elsewhere): the string without the character that starts at i
StringRemove(s, i) == SubSeq(s, 1, i) \o SubSeq(s, i + 1 + Len(Utf8(s[i + 1])), Len(s))

\* str::chars: the characters of the string, one for each leading byte
StrChars(s) == SelectSeq(s, LAMBDA x : x # ContByte)

\* Vec::pop: the vector without its last element
Pop(s) == SubSeq(s, 1, Len(s) - 1)

Top(s) == s[Len(s)]

\* index (1-based) of the first "\n" of s, 0 when there is none
RECURSIVE FirstNL(_, _)
FirstNL(s, i) ==
    IF i > Len(s) THEN 0
    ELSE IF s[i] = NL THEN i
    ELSE FirstNL(s, i + 1)

StripCR(l) == IF Len(l) > 0 /\ l[Len(l)] = CR THEN SubSeq(l, 1, Len(l) - 1) ELSE l

\* str::lines(): split at "\n" (a "\r" before it is dropped); a final line
\* without "\n" is kept as it is, and nothing follows a final "\n".
RECURSIVE StrLines(_)
StrLines(s) ==
    IF Len(s) = 0 THEN <<>>
    ELSE LET i == FirstNL(s, 1) IN
         IF i = 0 THEN <<s>>
         ELSE <<StripCR(SubSeq(s, 1, i - 1))>> \o StrLines(SubSeq(s, i + 1, Len(s)))

Position(r, c) == [row |-> r, col |-> c]

-----------------------------------------------------------------------------
(* editor::Buffer (src/src/editor/buffer.rs).                             *)

Action(t, pos, content) == [action_type |-> t, position |-> pos, content |-> content]

Buffer_new ==
    [lines |-> << <<>> >>, file_path |-> <<>>, modified |-> FALSE,
     undo_stack |-> <<>>, redo_stack |-> <<>>]

Buffer_from_content(content) ==
    [lines |-> IF Len(content) = 0 THEN << <<>> >> ELSE StrLines(content),
     file_path |-> <<>>, modified |-> FALSE,
     undo_stack |-> <<>>, redo_stack |-> <<>>]

Buffer_line_count(b) == Len(b.lines)

Buffer_is_modified(b) == b.modified

Buffer_can_undo(b) == Len(b.undo_stack) # 0

Buffer_can_redo(b) == Len(b.redo_stack) # 0

BufOk(b, ret) == [ok |-> TRUE, err |-> "", buf |-> b, ret |-> ret]

BufErr(b, e) == [ok |-> FALSE, err |-> e, buf |-> b, ret |-> <<>>]

\* variant: the redo stack is kept
M_push_action_keep_redo(b, action) == [b EXCEPT !.undo_stack = Append(@, action)]

Buffer_push_action(b, action) ==
    [b EXCEPT !.undo_stack = Append(@, action), !.redo_stack = <<>>]

Buffer_insert_char(b, pos, ch) ==
    IF pos.row >= Len(b.lines) THEN BufErr(b, "OutOfBounds")
    ELSE IF pos.col > Len(b.lines[pos.row + 1]) THEN BufErr(b, "OutOfBounds")
    ELSE IF ~IsCharBoundary(b.lines[pos.row + 1], pos.col) THEN BufErr(b, "panic")
    ELSE BufOk(Buffer_push_action(
                 [b EXCEPT !.lines[pos.row + 1] = StringInsert(@, pos.col, ch),
                           !.modified = TRUE],
                 Action("Insert", pos, Utf8(ch))),
               <<>>)

\* variant: a call that deletes nothing still marks the buffer as modified
M_delete_char_marks_modified(b, pos) ==
    IF pos.row >= Len(b.lines) THEN BufErr(b, "OutOfBounds")
    ELSE IF pos.col >= Len(b.lines[pos.row + 1]) THEN BufOk([b EXCEPT !.modified = TRUE], <<>>)
    ELSE IF ~IsCharBoundary(b.lines[pos.row + 1], pos.col) THEN BufErr(b, "panic")
    ELSE BufOk(Buffer_push_action(
                 [b EXCEPT !.lines[pos.row + 1] = StringRemove(@, pos.col),
                           !.modified = TRUE],
                 Action("Delete", pos, Utf8(b.lines[pos.row + 1][pos.col + 1]))),
               <<b.lines[pos.row + 1][pos.col + 1]>>)

Buffer_delete_char(b, pos) ==
    IF pos.row >= Len(b.lines) THEN BufErr(b, "OutOfBounds")
    ELSE IF pos.col >= Len(b.lines[pos.row + 1]) THEN BufOk(b, <<>>)
    ELSE IF ~IsCharBoundary(b.lines[pos.row + 1], pos.col) THEN BufErr(b, "panic")
    ELSE LET deleted_char == b.lines[pos.row + 1][pos.col + 1] IN
         BufOk(Buffer_push_action(
                 [b EXCEPT !.lines[pos.row + 1] = StringRemove(@, pos.col),
                           !.modified = TRUE],
                 Action("Delete", pos, Utf8(deleted_char))),
               <<deleted_char>>)

Buffer_insert_line(b, row) ==
    IF row > Len(b.lines) THEN BufErr(b, "OutOfBounds")
    ELSE BufOk(Buffer_push_action(
                 [b EXCEPT !.lines = InsertAt(@, row, <<>>), !.modified = TRUE],
                 Action("InsertLine", Position(row, 0), <<>>)),
               <<>>)

\* variant: the only line is removed like any other
M_delete_line_always_remove(b, row) ==
    IF row >= Len(b.lines) THEN [ok |-> FALSE, err |-> "OutOfBounds", buf |-> b, ret |-> <<>>]
    ELSE [ok |-> TRUE, err |-> "",
          buf |-> [b EXCEPT !.lines = RemoveAt(@, row), !.modified = TRUE,
                            !.undo_stack = Append(@, Action("DeleteLine", Position(row, 0),
                                                            b.lines[row + 1])),
                            !.redo_stack = <<>>],
          ret |-> <<b.lines[row + 1]>>]

Buffer_delete_line(b, row) ==
    IF row >= Len(b.lines) THEN BufErr(b, "OutOfBounds")
    ELSE IF Len(b.lines) = 1 THEN
         LET content == b.lines[1] IN
         BufOk(Buffer_push_action(
                 [b EXCEPT !.lines[1] = <<>>, !.modified = TRUE],
                 Action("DeleteLine", Position(row, 0), content)),
               <<content>>)
    ELSE LET deleted_line == b.lines[row + 1] IN
         BufOk(Buffer_push_action(
                 [b EXCEPT !.lines = RemoveAt(@, row), !.modified = TRUE],
                 Action("DeleteLine", Position(row, 0), deleted_line)),
               <<deleted_line>>)

\* the match of undo(): the lines after reverse-applying `action`
Buffer_undo_lines(lines, action) ==
    LET pos == action.position IN
    CASE action.action_type = "Insert" ->
           IF pos.row < Len(lines) /\ pos.col < Len(lines[pos.row + 1])
           THEN [lines EXCEPT ![pos.row + 1] = StringRemove(@, pos.col)]
           ELSE lines
      [] action.action_type = "Delete" ->
           IF pos.row < Len(lines) /\ pos.col <= Len(lines[pos.row + 1])
              /\ Len(action.content) > 0
           THEN [lines EXCEPT ![pos.row + 1] = StringInsert(@, pos.col, action.content[1])]
           ELSE lines
      [] action.action_type = "InsertLine" ->
           IF pos.row < Len(lines) THEN RemoveAt(lines, pos.row) ELSE lines
      [] action.action_type = "DeleteLine" ->
           IF pos.row <= Len(lines) THEN InsertAt(lines, pos.row, action.content)
           ELSE lines

\* variant: undo() leaves the buffer marked as modified
M_undo_modified_stays(stack) == TRUE

\* `modified` as undo() recomputes it from the undo stack left after the pop
Buffer_undo_modified(stack) == Len(stack) # 0

\* variant: undo() forgets the action it reverted
M_undo_forgets_action(b) ==
    IF Len(b.undo_stack) = 0 THEN BufErr(b, "EmptyUndoStack")
    ELSE BufOk([b EXCEPT !.lines = Buffer_undo_lines(@, Top(b.undo_stack)),
                         !.undo_stack = Pop(@),
                         !.modified = Len(Pop(b.undo_stack)) # 0],
               <<>>)

\* variant: undo() on an empty undo stack returns Ok
M_undo_empty_is_ok(b) ==
    IF Len(b.undo_stack) = 0 THEN BufOk(b, <<>>)
    ELSE BufOk([b EXCEPT !.lines = Buffer_undo_lines(@, Top(b.undo_stack)),
                         !.undo_stack = Pop(b.undo_stack),
                         !.redo_stack = Append(@, Top(b.undo_stack)),
                         !.modified = Buffer_undo_modified(Pop(b.undo_stack))],
               <<>>)

Buffer_undo(b) ==
    IF Len(b.undo_stack) = 0 THEN BufErr(b, "EmptyUndoStack")
    ELSE LET action == Top(b.undo_stack)
             rest == Pop(b.undo_stack) IN
         BufOk([b EXCEPT !.lines = Buffer_undo_lines(@, action),
                         !.undo_stack = rest,
                         !.redo_stack = Append(@, action),
                         !.modified = Buffer_undo_modified(rest)],
               <<>>)

\* variant: redo() reverse-applies the action as undo() does
M_redo_lines_as_undo(lines, action) == Buffer_undo_lines(lines, action)

\* the match of redo(): the lines after re-applying `action`
Buffer_redo_lines(lines, action) ==
    LET pos == action.position IN
    CASE action.action_type = "Insert" ->
           IF pos.row < Len(lines) /\ pos.col <= Len(lines[pos.row + 1])
              /\ Len(action.content) > 0
           THEN [lines EXCEPT ![pos.row + 1] = StringInsert(@, pos.col, action.content[1])]
           ELSE lines
      [] action.action_type = "Delete" ->
           IF pos.row < Len(lines) /\ pos.col < Len(lines[pos.row + 1])
           THEN [lines EXCEPT ![pos.row + 1] = StringRemove(@, pos.col)]
           ELSE lines
      [] action.action_type = "InsertLine" ->
           IF pos.row <= Len(lines) THEN InsertAt(lines, pos.row, action.content)
           ELSE lines
      [] action.action_type = "DeleteLine" ->
           IF pos.row < Len(lines) THEN RemoveAt(lines, pos.row) ELSE lines

\* variant: redo() leaves the modified flag as it finds it
M_redo_keeps_modified(b) ==
    IF Len(b.redo_stack) = 0 THEN BufErr(b, "EmptyRedoStack")
    ELSE BufOk([b EXCEPT !.lines = Buffer_redo_lines(@, Top(b.redo_stack)),
                         !.redo_stack = Pop(@),
                         !.undo_stack = Append(@, Top(b.redo_stack))],
               <<>>)

Buffer_redo(b) ==
    IF Len(b.redo_stack) = 0 THEN BufErr(b, "EmptyRedoStack")
    ELSE LET action == Top(b.redo_stack) IN
         BufOk([b EXCEPT !.lines = Buffer_redo_lines(@, action),
                         !.redo_stack = Pop(@),
                         !.undo_stack = Append(@, action),
                         !.modified = TRUE],
               <<>>)

\* variant: a save forgets the actions that were undone
M_mark_saved_clears_redo(b) == [b EXCEPT !.modified = FALSE, !.redo_stack = <<>>]

Buffer_mark_saved(b) == [b EXCEPT !.modified = FALSE]

-----------------------------------------------------------------------------
(* domain::ModeManager (src/src/domain/editor_mode.rs).                   *)
(* A trigger is <<"Key", c>>, <<"Escape">> or <<"Command", text>>.        *)

ModeTransition(from, to, trigger) == [from |-> from, to |-> to, trigger |-> trigger]

\* the transition table ModeManager::new() builds, in its order
DomainModeManager_transitions ==
    << ModeTransition("Normal", "Insert", <<"Key", "i">>),
       ModeTransition("Normal", "Insert", <<"Key", "a">>),
       ModeTransition("Normal", "Insert", <<"Key", "o">>),
       ModeTransition("Normal", "Insert", <<"Key", "O">>),
       ModeTransition("Normal", "Visual", <<"Key", "v">>),
       ModeTransition("Normal", "Command", <<"Key", ":">>),
       ModeTransition("Insert", "Normal", <<"Escape">>),
       ModeTransition("Visual", "Normal", <<"Escape">>),
       ModeTransition("Command", "Normal", <<"Escape">>) >>

DomainModeManager_new == [current_mode |-> "Normal", previous_mode |-> << >>]

\* variant: the first row whose trigger matches is taken, whatever mode it leaves
M_transition_ignores_from(m, trigger) ==
    LET t == DomainModeManager_transitions
        hits == {i \in 1 .. Len(t) : t[i].trigger = trigger}
    IN  IF hits = {} THEN [mm |-> m, ret |-> FALSE]
        ELSE LET i == CHOOSE k \in hits : \A j \in hits : k <= j
             IN  [mm |-> [current_mode |-> t[i].to, previous_mode |-> <<m.current_mode>>],
                  ret |-> TRUE]

\* the loop shared by transition_with_key, transition_with_escape and
\* transition_with_command: the first row of the table that leaves the current
\* mode on `trigger` is taken
DomainModeManager_transition(m, trigger) ==
    LET t == DomainModeManager_transitions
        hits == {i \in 1 .. Len(t) : t[i].from = m.current_mode /\ t[i].trigger = trigger}
    IN  IF hits = {} THEN [mm |-> m, ret |-> FALSE]
        ELSE LET i == CHOOSE k \in hits : \A j \in hits : k <= j
             IN  [mm |-> [current_mode |-> t[i].to, previous_mode |-> <<m.current_mode>>],
                  ret |-> TRUE]

DomainModeManager_transition_with_key(m, key) == DomainModeManager_transition(m, <<"Key", key>>)

\* variant: Escape goes to Normal without recording the mode it left
M_escape_forgets_mode_left(m) ==
    LET res == DomainModeManager_transition(m, <<"Escape">>)
    IN  [res EXCEPT !.mm.previous_mode = m.previous_mode]

DomainModeManager_transition_with_escape(m) == DomainModeManager_transition(m, <<"Escape">>)

DomainModeManager_transition_with_command(m, command) ==
    DomainModeManager_transition(m, <<"Command", command>>)

DomainModeManager_reset_to_normal(m) ==
    [current_mode |-> "Normal", previous_mode |-> <<m.current_mode>>]

-----------------------------------------------------------------------------
(* vim::ModeManager (src/src/vim/mode.rs).                                *)

Mode_Normal == [tag |-> "Normal"]
Mode_Insert == [tag |-> "Insert"]
Mode_Visual(start) == [tag |-> "Visual", start |-> start]
Mode_Command(input) == [tag |-> "Command", input |-> input]

VimModeManager_new == [current |-> Mode_Normal, previous |-> << >>]

\* variant: Insert may go wherever Normal may
M_can_transition_from_insert(m, target) ==
    \/ m.current.tag \in {"Normal", "Insert"}
    \/ m.current.tag = "Visual" /\ target.tag \in {"Normal", "Insert"}
    \/ m.current.tag = "Command" /\ target.tag = "Normal"

VimModeManager_can_transition_to(m, target) ==
    \/ m.current.tag = "Normal"
    \/ m.current.tag = "Insert" /\ target.tag = "Normal"
    \/ m.current.tag = "Visual" /\ target.tag \in {"Normal", "Insert"}
    \/ m.current.tag = "Command" /\ target.tag = "Normal"

VimModeManager_transition_to(m, target) ==
    IF VimModeManager_can_transition_to(m, target)
    THEN [current |-> target, previous |-> <<m.current>>]
    ELSE m

VimModeManager_enter_insert(m) == VimModeManager_transition_to(m, Mode_Insert)

VimModeManager_enter_visual(m, start) == VimModeManager_transition_to(m, Mode_Visual(start))

\* variant: enter_command() takes up the input of the Command mode left last
M_enter_command_resumes_input(m) ==
    VimModeManager_transition_to(
        m, IF m.previous # << >> /\ m.previous[1].tag = "Command"
           THEN m.previous[1] ELSE Mode_Command(<< >>))

VimModeManager_enter_command(m) == VimModeManager_transition_to(m, Mode_Command(<< >>))

VimModeManager_enter_normal(m) == VimModeManager_transition_to(m, Mode_Normal)

\* variant: the input is stored whatever the current mode
M_update_command_input_any_mode(m, input) ==
    [ok |-> TRUE, err |-> "", mm |-> [m EXCEPT !.current = Mode_Command(input)]]

VimModeManager_update_command_input(m, input) ==
    IF m.current.tag = "Command"
    THEN [ok |-> TRUE, err |-> "", mm |-> [m EXCEPT !.current = Mode_Command(input)]]
    ELSE [ok |-> FALSE, err |-> "InvalidModeTransition", mm |-> m]

\* variant: try_transition_to() takes every target
M_try_transition_to_any(m, target) ==
    [ok |-> TRUE, err |-> "", mm |-> [current |-> target, previous |-> <<m.current>>]]

VimModeManager_try_transition_to(m, target) ==
    IF VimModeManager_can_transition_to(m, target)
    THEN [ok |-> TRUE, err |-> "", mm |-> VimModeManager_transition_to(m, target)]
    ELSE [ok |-> FALSE, err |-> "InvalidModeTransition", mm |-> m]

-----------------------------------------------------------------------------
(* domain::CursorPosition (src/src/domain/cursor.rs): total, clamping.    *)

CursorPosition(row, col) == [row |-> row, col |-> col]

\* usize::saturating_sub
SatSub(a, b) == IF a > b THEN a - b ELSE 0

CursorPosition_move_right(c, line_length) ==
    IF c.col < line_length THEN [c EXCEPT !.col = @ + 1] ELSE c

CursorPosition_move_left(c) == IF c.col > 0 THEN [c EXCEPT !.col = @ - 1] ELSE c

CursorPosition_move_up(c) == IF c.row > 0 THEN [c EXCEPT !.row = @ - 1] ELSE c

\* variant: the cursor may go down to row buffer_height
M_move_down_to_height(c, buffer_height) ==
    IF c.row < buffer_height THEN [c EXCEPT !.row = @ + 1] ELSE c

CursorPosition_move_down(c, buffer_height) ==
    IF c.row < SatSub(buffer_height, 1) THEN [c EXCEPT !.row = @ + 1] ELSE c

CursorPosition_move_to_line_start(c) == [c EXCEPT !.col = 0]

CursorPosition_move_to_line_end(c, line_length) == [c EXCEPT !.col = line_length]

CursorPosition_move_to_buffer_start(c) == CursorPosition(0, 0)

CursorPosition_move_to_buffer_end(c, buffer_height, last_line_length) ==
    IF buffer_height > 0 THEN CursorPosition(SatSub(buffer_height, 1), last_line_length) ELSE c

-----------------------------------------------------------------------------
(* domain::TextBuffer (src/src/domain/text_buffer.rs).  An action's       *)
(* position is the pair <<row, col>>.                                     *)

TextAction(t, row, col, content) ==
    [action_type |-> t, position |-> <<row, col>>, content |-> content]

TextBuffer_new ==
    [lines |-> << << >> >>, file_path |-> << >>, modified |-> FALSE,
     undo_stack |-> << >>, redo_stack |-> << >>]

TextBuffer_from_content(content) ==
    [TextBuffer_new EXCEPT !.lines = IF content = << >> THEN << << >> >> ELSE StrLines(content)]

TextBuffer_with_file_path(b, path) == [b EXCEPT !.file_path = <<path>>]

TextBuffer_line_count(b) == Len(b.lines)

TextBuffer_get_line_length(b, index) ==
    IF index < Len(b.lines) THEN Len(b.lines[index + 1]) ELSE 0

TextBuffer_is_modified(b) == b.modified

\* the three statements that end every edit: set modified, push, clear redo
TextBuffer_record(b, action) ==
    [b EXCEPT !.modified = TRUE, !.undo_stack = Append(@, action), !.redo_stack = << >>]

TextBuffer_insert_char(b, row, col, ch) ==
    IF row >= Len(b.lines) THEN BufErr(b, "Row out of bounds")
    ELSE IF col > Len(b.lines[row + 1]) THEN BufErr(b, "Column out of bounds")
    ELSE IF ~IsCharBoundary(b.lines[row + 1], col) THEN BufErr(b, "panic")
    ELSE BufOk(TextBuffer_record([b EXCEPT !.lines[row + 1] = StringInsert(@, col, ch)],
                                 TextAction("Insert", row, col, Utf8(ch))), << >>)

TextBuffer_delete_char(b, row, col) ==
    IF row >= Len(b.lines) THEN BufErr(b, "Row out of bounds")
    ELSE IF col >= Len(b.lines[row + 1]) THEN BufOk(b, << >>)
    ELSE IF ~IsCharBoundary(b.lines[row + 1], col) THEN BufErr(b, "panic")
    ELSE LET deleted_char == b.lines[row + 1][col + 1] IN
         BufOk(TextBuffer_record([b EXCEPT !.lines[row + 1] = StringRemove(@, col)],
                                 TextAction("Delete", row, col, Utf8(deleted_char))),
               <<deleted_char>>)

\* variant: the new line is put in front of every line
M_text_insert_line_prepends(b, row) ==
    IF row > Len(b.lines) THEN BufErr(b, "Row out of bounds")
    ELSE BufOk(TextBuffer_record([b EXCEPT !.lines = <<<< >>>> \o @],
                                 TextAction("Insert", row, 0, <<NL>>)), << >>)

TextBuffer_insert_line(b, row) ==
    IF row > Len(b.lines) THEN BufErr(b, "Row out of bounds")
    ELSE BufOk(TextBuffer_record([b EXCEPT !.lines = InsertAt(@, row, << >>)],
                                 TextAction("Insert", row, 0, <<NL>>)), << >>)

\* variant: the first line is removed whichever row is asked for
M_text_delete_line_removes_first(b, row) ==
    IF row >= Len(b.lines) THEN BufErr(b, "Row out of bounds")
    ELSE BufOk(TextBuffer_record(
                 [b EXCEPT !.lines = IF Len(b.lines) = 1 THEN << << >> >> ELSE RemoveAt(@, 0)],
                 TextAction("Delete", row, 0, b.lines[row + 1])),
               <<b.lines[row + 1]>>)

TextBuffer_delete_line(b, row) ==
    IF row >= Len(b.lines) THEN BufErr(b, "Row out of bounds")
    ELSE IF Len(b.lines) = 1
    THEN LET content == b.lines[1] IN
         BufOk(TextBuffer_record([b EXCEPT !.lines[1] = << >>],
                                 TextAction("Delete", row, 0, content)), <<content>>)
    ELSE LET deleted_line == b.lines[row + 1] IN
         BufOk(TextBuffer_record([b EXCEPT !.lines = RemoveAt(@, row)],
                                 TextAction("Delete", row, 0, deleted_line)), <<deleted_line>>)

TextBuffer_can_undo(b) == Len(b.undo_stack) # 0

TextBuffer_can_redo(b) == Len(b.redo_stack) # 0

\* str::contains('\n') and str::replace('\n', "")
HasNL(s) == \E i \in 1 .. Len(s) : s[i] = NL
DropNL(s) == SelectSeq(s, LAMBDA c : c # NL)

\* the branch of undo()/redo() that takes a character or a line away
TextBuffer_take_away(lines, action, whole_line) ==
    LET row == action.position[1]
        col == action.position[2]
    IN  IF whole_line
        THEN IF row < Len(lines) THEN RemoveAt(lines, row) ELSE lines
        ELSE IF row < Len(lines) /\ col < Len(lines[row + 1])
             THEN [lines EXCEPT ![row + 1] = StringRemove(@, col)]
             ELSE lines

\* the branch of undo()/redo() that puts the first character of the content back
TextBuffer_put_char(lines, action) ==
    LET row == action.position[1]
        col == action.position[2]
    IN  IF row < Len(lines) /\ col <= Len(lines[row + 1]) /\ Len(action.content) > 0
        THEN [lines EXCEPT ![row + 1] = StringInsert(@, col, action.content[1])]
        ELSE lines

\* Vec::insert(row, line) panics when row > len: the calls of undo() and
\* redo() that reach it with such a row
TextBuffer_undo_panics(lines, action) ==
    action.action_type = "Delete" /\ HasNL(action.content) /\ action.position[1] > Len(lines)

TextBuffer_redo_panics(lines, action) ==
    action.action_type = "Insert" /\ action.content = <<NL>> /\ action.position[1] > Len(lines)

\* the match of undo(): the lines after it (when it does not panic)
TextBuffer_undo_lines(lines, action) ==
    CASE action.action_type = "Insert" ->
            TextBuffer_take_away(lines, action, action.content = <<NL>>)
      [] action.action_type = "Delete" ->
            IF HasNL(action.content)
            THEN InsertAt(lines, action.position[1], DropNL(action.content))
            ELSE TextBuffer_put_char(lines, action)
      [] OTHER -> lines

TextBuffer_undo(b) ==
    IF Len(b.undo_stack) = 0 THEN BufErr(b, "Nothing to undo")
    ELSE LET action == Top(b.undo_stack)
             lines == TextBuffer_undo_lines(b.lines, action)
         IN  IF TextBuffer_undo_panics(b.lines, action)
             THEN BufErr([b EXCEPT !.undo_stack = Pop(@)], "panic")
             ELSE BufOk([b EXCEPT !.lines = lines,
                                  !.undo_stack = Pop(@),
                                  !.redo_stack = Append(@, action),
                                  !.modified = Len(b.undo_stack) - 1 # 0], << >>)

\* the match of redo(): the lines after it (when it does not panic)
TextBuffer_redo_lines(lines, action) ==
    CASE action.action_type = "Insert" ->
            IF action.content = <<NL>>
            THEN InsertAt(lines, action.position[1], << >>)
            ELSE TextBuffer_put_char(lines, action)
      [] action.action_type = "Delete" ->
            TextBuffer_take_away(lines, action, HasNL(action.content))
      [] OTHER -> lines

TextBuffer_redo(b) ==
    IF Len(b.redo_stack) = 0 THEN BufErr(b, "Nothing to redo")
    ELSE LET action == Top(b.redo_stack)
             lines == TextBuffer_redo_lines(b.lines, action)
         IN  IF TextBuffer_redo_panics(b.lines, action)
             THEN BufErr([b EXCEPT !.redo_stack = Pop(@)], "panic")
             ELSE BufOk([b EXCEPT !.lines = lines,
                                  !.redo_stack = Pop(@),
                                  !.undo_stack = Append(@, action),
                                  !.modified = TRUE], << >>)

RECURSIVE JoinLines(_)
\* [String]::join("\n")
JoinLines(lines) ==
    IF Len(lines) = 0 THEN << >>
    ELSE IF Len(lines) = 1 THEN lines[1]
    ELSE lines[1] \o <<NL>> \o JoinLines(Tail(lines))

TextBuffer_to_string(b) == JoinLines(b.lines)

TextBuffer_mark_saved(b) == [b EXCEPT !.modified = FALSE]

-----------------------------------------------------------------------------
(* Keys and commands.  A key is its code ("Char" with the character, or   *)
(* "Esc", "Enter", "Backspace", "Tab", an arrow) and its modifiers; a      *)
(* command is its variant name with the character or text it carries.     *)

Key(code, ch, mods) == [code |-> code, ch |-> ch, mods |-> mods]
KeyChar(c) == Key("Char", c, "NONE")
KeyShift(c) == Key("Char", c, "SHIFT")
KeyCtrl(c) == Key("Char", c, "CONTROL")
KeyEsc == Key("Esc", "", "NONE")
KeyEnter == Key("Enter", "", "NONE")
KeyBackspace == Key("Backspace", "", "NONE")
KeyTab == Key("Tab", "", "NONE")
KeyDelete == Key("Delete", "", "NONE")
TAB == "\t"

Cmd(name) == [name |-> name, arg |-> ""]
CmdArg(name, arg) == [name |-> name, arg |-> arg]

-----------------------------------------------------------------------------
(* application::VimBindings (src/src/application/vim_bindings.rs): the    *)
(* bindings own a domain::ModeManager; parse_key returns the command and  *)
(* the manager after the transition the binding asks for.                 *)

\* the arms of parse_normal_mode_key: <<character, modifiers, command>>
VimBindings_normal_arms ==
    { <<"h", "NONE", "MoveLeft">>, <<"j", "NONE", "MoveDown">>, <<"k", "NONE", "MoveUp">>,
      <<"l", "NONE", "MoveRight">>, <<"w", "NONE", "MoveWordForward">>,
      <<"b", "NONE", "MoveWordBackward">>, <<"0", "NONE", "MoveLineStart">>,
      <<"$", "NONE", "MoveLineEnd">>, <<"g", "NONE", "MoveBufferStart">>,
      <<"G", "SHIFT", "MoveBufferEnd">>,
      <<"i", "NONE", "EnterInsertMode">>, <<"a", "NONE", "EnterInsertModeAfter">>,
      <<"o", "NONE", "EnterInsertModeNewLine">>,
      <<"O", "SHIFT", "EnterInsertModeNewLineAbove">>,
      <<"v", "NONE", "EnterVisualMode">>, <<":", "NONE", "EnterCommandMode">>,
      <<"x", "NONE", "DeleteChar">>, <<"d", "NONE", "DeleteLine">>, <<"u", "NONE", "Undo">>,
      <<"r", "CONTROL", "Redo">>, <<"f", "CONTROL", "PageDown">>, <<"b", "CONTROL", "PageUp">> }

\* the arms of parse_normal_mode_key that call transition_with_key first
VimBindings_transition_arms ==
    {"EnterInsertMode", "EnterInsertModeAfter", "EnterInsertModeNewLine",
     "EnterInsertModeNewLineAbove", "EnterVisualMode", "EnterCommandMode"}

VimBindings_parse_normal_mode_key(mm, key) ==
    LET arms == {a \in VimBindings_normal_arms :
                    key.code = "Char" /\ a[1] = key.ch /\ a[2] = key.mods}
    IN  IF arms = {} THEN [mm |-> mm, cmd |-> Cmd("Unknown")]
        ELSE LET name == (CHOOSE a \in arms : TRUE)[3] IN
             [mm |-> IF name \in VimBindings_transition_arms
                     THEN DomainModeManager_transition_with_key(mm, key.ch).mm
                     ELSE mm,
              cmd |-> Cmd(name)]

VimBindings_parse_insert_mode_key(mm, key) ==
    CASE key.code = "Esc" ->
            [mm |-> DomainModeManager_transition_with_escape(mm).mm, cmd |-> Cmd("ExitToNormal")]
      [] key.code = "Char" /\ key.mods \in {"NONE", "SHIFT"} ->
            [mm |-> mm, cmd |-> CmdArg("InsertChar", key.ch)]
      [] key.code = "Backspace" -> [mm |-> mm, cmd |-> Cmd("Backspace")]
      [] key.code = "Enter" -> [mm |-> mm, cmd |-> CmdArg("InsertChar", NL)]
      [] key.code = "Tab" -> [mm |-> mm, cmd |-> CmdArg("InsertChar", TAB)]
      [] OTHER -> [mm |-> mm, cmd |-> Cmd("Unknown")]

VimBindings_parse_visual_mode_key(mm, key) ==
    CASE key.code = "Esc" ->
            [mm |-> DomainModeManager_transition_with_escape(mm).mm, cmd |-> Cmd("ExitToNormal")]
      [] key = KeyChar("h") -> [mm |-> mm, cmd |-> Cmd("MoveLeft")]
      [] key = KeyChar("j") -> [mm |-> mm, cmd |-> Cmd("MoveDown")]
      [] key = KeyChar("k") -> [mm |-> mm, cmd |-> Cmd("MoveUp")]
      [] key = KeyChar("l") -> [mm |-> mm, cmd |-> Cmd("MoveRight")]
      [] OTHER -> [mm |-> mm, cmd |-> Cmd("Unknown")]

VimBindings_parse_command_mode_key(mm, key) ==
    CASE key.code = "Esc" ->
            [mm |-> DomainModeManager_transition_with_escape(mm).mm, cmd |-> Cmd("ExitToNormal")]
      [] key.code = "Enter" -> [mm |-> mm, cmd |-> Cmd("CommandExecute")]
      [] key.code = "Backspace" -> [mm |-> mm, cmd |-> Cmd("CommandBackspace")]
      [] key.code = "Char" /\ key.mods \in {"NONE", "SHIFT"} ->
            [mm |-> mm, cmd |-> CmdArg("CommandChar", key.ch)]
      [] OTHER -> [mm |-> mm, cmd |-> Cmd("Unknown")]

VimBindings_parse_key(mm, key) ==
    CASE mm.current_mode = "Normal" -> VimBindings_parse_normal_mode_key(mm, key)
      [] mm.current_mode = "Insert" -> VimBindings_parse_insert_mode_key(mm, key)
      [] mm.current_mode = "Visual" -> VimBindings_parse_visual_mode_key(mm, key)
      [] mm.current_mode = "Command" -> VimBindings_parse_command_mode_key(mm, key)

\* the result of execute_command: Ok or Err(message), with the cursor and the
\* buffer as the call leaves them (an error keeps what was done before it)
ExecOk(cursor, b) == [ok |-> TRUE, err |-> "", cursor |-> cursor, buf |-> b]
ExecErr(cursor, b, e) == [ok |-> FALSE, err |-> e, cursor |-> cursor, buf |-> b]

RECURSIVE VimBindings_reinsert(_, _, _)
\* the loop of the Backspace arm: insert the characters of the joined line
VimBindings_reinsert(cursor, b, chars) ==
    IF Len(chars) = 0 THEN ExecOk(cursor, b)
    ELSE LET res == TextBuffer_insert_char(b, cursor.row, cursor.col, Head(chars)) IN
         IF ~res.ok THEN ExecErr(cursor, res.buf, res.err)
         ELSE VimBindings_reinsert([cursor EXCEPT !.col = @ + 1], res.buf, Tail(chars))

\* variant: at the origin the character under the cursor is deleted
M_backspace_deletes_at_origin(cursor, b) ==
    IF cursor.col > 0
    THEN LET c1 == CursorPosition_move_left(cursor)
             res == TextBuffer_delete_char(b, c1.row, c1.col)
         IN  IF res.ok THEN ExecOk(c1, res.buf) ELSE ExecErr(c1, res.buf, res.err)
    ELSE IF cursor.row > 0
    THEN LET current_line == IF cursor.row < Len(b.lines) THEN b.lines[cursor.row + 1] ELSE << >>
             prev_line_length == TextBuffer_get_line_length(b, cursor.row - 1)
             res == TextBuffer_delete_line(b, cursor.row)
         IN  IF ~res.ok THEN ExecErr(cursor, res.buf, res.err)
             ELSE VimBindings_reinsert(CursorPosition(cursor.row - 1, prev_line_length),
                                       res.buf, StrChars(current_line))
    ELSE ExecOk(cursor, TextBuffer_delete_char(b, 0, 0).buf)

VimBindings_backspace(cursor, b) ==
    IF cursor.col > 0
    THEN LET c1 == CursorPosition_move_left(cursor)
             res == TextBuffer_delete_char(b, c1.row, c1.col)
         IN  IF res.ok THEN ExecOk(c1, res.buf) ELSE ExecErr(c1, res.buf, res.err)
    ELSE IF cursor.row > 0
    THEN LET current_line == IF cursor.row < Len(b.lines) THEN b.lines[cursor.row + 1] ELSE << >>
             prev_line_length == TextBuffer_get_line_length(b, cursor.row - 1)
             res == TextBuffer_delete_line(b, cursor.row)
         IN  IF ~res.ok THEN ExecErr(cursor, res.buf, res.err)
             ELSE VimBindings_reinsert(CursorPosition(cursor.row - 1, prev_line_length),
                                       res.buf, StrChars(current_line))
    ELSE ExecOk(cursor, b)

\* `?` on a buffer result: the error is returned with the cursor as it is
ExecTry(cursor, res, then) == IF res.ok THEN then ELSE ExecErr(cursor, res.buf, res.err)

VimBindings_execute_command(cmd, cursor, b) ==
    CASE cmd.name = "MoveLeft" -> ExecOk(CursorPosition_move_left(cursor), b)
      [] cmd.name = "MoveRight" ->
            LET line_length == TextBuffer_get_line_length(b, cursor.row)
                c1 == CursorPosition_move_right(cursor, line_length)
            IN  ExecOk(IF c1.col > line_length /\ line_length > 0
                       THEN [c1 EXCEPT !.col = SatSub(line_length, 1)] ELSE c1, b)
      [] cmd.name = "MoveUp" -> ExecOk(CursorPosition_move_up(cursor), b)
      [] cmd.name = "MoveDown" ->
            ExecOk(CursorPosition_move_down(cursor, TextBuffer_line_count(b)), b)
      [] cmd.name = "MoveLineStart" -> ExecOk(CursorPosition_move_to_line_start(cursor), b)
      [] cmd.name = "MoveLineEnd" ->
            ExecOk(CursorPosition_move_to_line_end(
                       cursor, TextBuffer_get_line_length(b, cursor.row)), b)
      [] cmd.name = "MoveBufferStart" -> ExecOk(CursorPosition_move_to_buffer_start(cursor), b)
      [] cmd.name = "MoveBufferEnd" ->
            LET last_line_length ==
                    IF TextBuffer_line_count(b) > 0
                    THEN TextBuffer_get_line_length(b, TextBuffer_line_count(b) - 1) ELSE 0
            IN  ExecOk(CursorPosition_move_to_buffer_end(
                           cursor, TextBuffer_line_count(b), last_line_length), b)
      [] cmd.name = "InsertChar" ->
            IF cmd.arg = NL
            THEN LET res == TextBuffer_insert_line(b, cursor.row + 1) IN
                 ExecTry(cursor, res,
                         ExecOk(CursorPosition_move_to_line_start(
                                    CursorPosition_move_down(cursor, TextBuffer_line_count(res.buf))),
                                res.buf))
            ELSE LET res == TextBuffer_insert_char(b, cursor.row, cursor.col, cmd.arg) IN
                 ExecTry(cursor, res,
                         ExecOk(CursorPosition_move_right(
                                    cursor, TextBuffer_get_line_length(res.buf, cursor.row)),
                                res.buf))
      [] cmd.name = "DeleteChar" ->
            LET res == TextBuffer_delete_char(b, cursor.row, cursor.col) IN
            ExecTry(cursor, res, ExecOk(cursor, res.buf))
      [] cmd.name = "Backspace" -> VimBindings_backspace(cursor, b)
      [] cmd.name = "DeleteLine" ->
            LET res == TextBuffer_delete_line(b, cursor.row) IN
            ExecTry(cursor, res, ExecOk(CursorPosition_move_to_line_start(cursor), res.buf))
      [] cmd.name = "Undo" ->
            LET res == TextBuffer_undo(b) IN ExecTry(cursor, res, ExecOk(cursor, res.buf))
      [] cmd.name = "Redo" ->
            LET res == TextBuffer_redo(b) IN ExecTry(cursor, res, ExecOk(cursor, res.buf))
      [] OTHER -> ExecOk(cursor, b)

-----------------------------------------------------------------------------
(* The file system: the file of the editor is absent (<< >>) or holds a   *)
(* text (<<content>>); whether a write succeeds is the environment's      *)
(* choice, and a failed write leaves the file as it was.                  *)

FileSystem_write_file(file, content, write_ok) ==
    IF write_ok THEN [ok |-> TRUE, disk |-> <<content>>] ELSE [ok |-> FALSE, disk |-> file]

\* file_exists / read_file as with_file uses them: an absent file reads as ""
FileSystem_read_or_empty(file) == IF file = << >> THEN << >> ELSE file[1]

-----------------------------------------------------------------------------
(* application::EditorService (src/src/application/editor_service.rs).    *)
(* The service is its EditorState with the ModeManager of its VimBindings *)
(* (mode_manager).  A status message is its text and its argument.        *)

Msg(text, arg) == [text |-> text, arg |-> arg]

CommandLine_new == [active |-> FALSE, content |-> << >>, cursor_pos |-> 0]

CommandLine_activate(cl) == [active |-> TRUE, content |-> <<":">>, cursor_pos |-> 1]

CommandLine_deactivate(cl) == [active |-> FALSE, content |-> << >>, cursor_pos |-> 0]

\* content.insert(cursor_pos, ch) panics unless cursor_pos is a character
\* boundary of content; content.remove(cursor_pos - 1) likewise
CommandLine_insert_panics(cl) == ~IsCharBoundary(cl.content, cl.cursor_pos)

CommandLine_insert_char(cl, ch) ==
    [cl EXCEPT !.content = StringInsert(@, cl.cursor_pos, ch), !.cursor_pos = @ + 1]

CommandLine_delete_panics(cl) ==
    /\ cl.cursor_pos > 1
    /\ \/ cl.cursor_pos - 1 >= Len(cl.content)
       \/ ~IsCharBoundary(cl.content, cl.cursor_pos - 1)

CommandLine_delete_char(cl) ==
    IF cl.cursor_pos > 1
    THEN [cl EXCEPT !.cursor_pos = @ - 1, !.content = StringRemove(@, cl.cursor_pos - 1)]
    ELSE cl

CommandLine_get_command(cl) ==
    IF Len(cl.content) > 1 THEN SubSeq(cl.content, 2, Len(cl.content)) ELSE << >>

EditorService_new ==
    [cursor |-> CursorPosition(0, 0), buffer |-> TextBuffer_new, file_path |-> << >>,
     should_quit |-> FALSE, status_message |-> Msg("", << >>),
     command_line |-> CommandLine_new, mode_manager |-> DomainModeManager_new]

EditorService_with_file(path, file) ==
    [EditorService_new EXCEPT
        !.buffer = TextBuffer_with_file_path(
                       TextBuffer_from_content(FileSystem_read_or_empty(file)), path),
        !.file_path = <<path>>]

\* the result of a handler: Ok or Err, with the service and the file after it
SvcOk(svc, file) == [ok |-> TRUE, err |-> "", svc |-> svc, disk |-> file]
SvcErr(svc, file, e) == [ok |-> FALSE, err |-> e, svc |-> svc, disk |-> file]

\* write_file(file_path, buffer.to_string())? followed by mark_saved()
EditorService_write(svc, file, write_ok) ==
    LET w == FileSystem_write_file(file, TextBuffer_to_string(svc.buffer), write_ok) IN
    IF w.ok THEN SvcOk([svc EXCEPT !.buffer = TextBuffer_mark_saved(@)], w.disk)
    ELSE SvcErr(svc, w.disk, "Failed to write file")

\* the arm of Save and of "w"
EditorService_save(svc, file, write_ok) ==
    IF svc.file_path # << >>
    THEN LET res == EditorService_write(svc, file, write_ok) IN
         IF res.ok
         THEN SvcOk([res.svc EXCEPT !.status_message = Msg("written", svc.file_path)], res.disk)
         ELSE res
    ELSE SvcOk([svc EXCEPT !.status_message = Msg("No file name", << >>)], file)

\* variant: Quit quits whatever the buffer holds
M_quit_unconditional(svc) == [svc EXCEPT !.should_quit = TRUE]

\* the arm of Quit and of "q"
EditorService_quit(svc) ==
    IF TextBuffer_is_modified(svc.buffer)
    THEN [svc EXCEPT !.status_message =
                         Msg("No write since last change (add ! to override)", << >>)]
    ELSE [svc EXCEPT !.should_quit = TRUE]

\* the arm of SaveAndQuit and of "wq"
EditorService_save_and_quit(svc, file, write_ok) ==
    IF svc.file_path # << >>
    THEN LET res == EditorService_write(svc, file, write_ok) IN
         IF res.ok THEN SvcOk([res.svc EXCEPT !.should_quit = TRUE], res.disk) ELSE res
    ELSE SvcOk([svc EXCEPT !.should_quit = TRUE], file)

\* the arm of ForceQuit and of "q!"
EditorService_force_quit(svc) == [svc EXCEPT !.should_quit = TRUE]

\* variant: a command line the editor does not know is an error
M_unknown_command_is_error(svc, file, command, write_ok) ==
    CASE command = <<"w">> -> EditorService_save(svc, file, write_ok)
      [] command = <<"q">> -> SvcOk(EditorService_quit(svc), file)
      [] command = <<"w", "q">> -> EditorService_save_and_quit(svc, file, write_ok)
      [] command = <<"q", "!">> -> SvcOk(EditorService_force_quit(svc), file)
      [] OTHER -> SvcErr(svc, file, "Unknown command")

EditorService_execute_vim_command(svc, file, command, write_ok) ==
    CASE command = <<"w">> -> EditorService_save(svc, file, write_ok)
      [] command = <<"q">> -> SvcOk(EditorService_quit(svc), file)
      [] command = <<"w", "q">> -> EditorService_save_and_quit(svc, file, write_ok)
      [] command = <<"q", "!">> -> SvcOk(EditorService_force_quit(svc), file)
      [] OTHER -> SvcOk([svc EXCEPT !.status_message = Msg("Unknown command: ", command)], file)

M_adjust_cursor_any_mode(svc) ==
    LET row == IF svc.cursor.row >= TextBuffer_line_count(svc.buffer)
               THEN TextBuffer_line_count(svc.buffer) - 1 ELSE svc.cursor.row
        line_length == TextBuffer_get_line_length(svc.buffer, row)
    IN  [svc EXCEPT !.cursor = CursorPosition(row, IF svc.cursor.col > line_length
                                                   THEN line_length ELSE svc.cursor.col)]

EditorService_adjust_cursor_position(svc) ==
    LET buffer_height == TextBuffer_line_count(svc.buffer)
        row == IF buffer_height > 0 /\ svc.cursor.row >= buffer_height
               THEN buffer_height - 1 ELSE svc.cursor.row
        line_length == TextBuffer_get_line_length(svc.buffer, row)
        max_col == IF svc.mode_manager.current_mode = "Insert"
                   THEN line_length ELSE SatSub(line_length, 1)
    IN  [svc EXCEPT !.cursor = CursorPosition(row, IF svc.cursor.col > max_col
                                                   THEN max_col ELSE svc.cursor.col)]

\* the match of execute_command; an Err leaves through `?` before the cursor
\* is adjusted
\* the `_` arm of execute_command: the cursor and the buffer are what
\* vim_bindings.execute_command left, an Err becomes the status message
EditorService_after_bindings(svc, file, res) ==
    IF res.ok THEN SvcOk([svc EXCEPT !.cursor = res.cursor, !.buffer = res.buf], file)
    ELSE IF res.err = "panic"
    THEN SvcErr([svc EXCEPT !.cursor = res.cursor, !.buffer = res.buf], file, "panic")
    ELSE SvcOk([svc EXCEPT !.cursor = res.cursor, !.buffer = res.buf,
                           !.status_message = Msg(res.err, << >>)], file)

EditorService_dispatch(svc, file, cmd, write_ok) ==
    CASE cmd.name = "EnterCommandMode" ->
            SvcOk([svc EXCEPT !.command_line = CommandLine_activate(@)], file)
      [] cmd.name = "CommandChar" ->
            IF svc.command_line.active /\ CommandLine_insert_panics(svc.command_line)
            THEN SvcErr(svc, file, "panic")
            ELSE SvcOk(IF svc.command_line.active
                       THEN [svc EXCEPT !.command_line = CommandLine_insert_char(@, cmd.arg)]
                       ELSE svc, file)
      [] cmd.name = "CommandBackspace" ->
            IF svc.command_line.active /\ CommandLine_delete_panics(svc.command_line)
            THEN SvcErr(svc, file, "panic")
            ELSE SvcOk(IF svc.command_line.active
                       THEN [svc EXCEPT !.command_line = CommandLine_delete_char(@)]
                       ELSE svc, file)
      [] cmd.name = "CommandExecute" ->
            IF svc.command_line.active
            THEN LET res == EditorService_execute_vim_command(
                                svc, file, CommandLine_get_command(svc.command_line), write_ok)
                 IN  IF res.ok
                     THEN SvcOk([res.svc EXCEPT !.command_line = CommandLine_deactivate(@)],
                                res.disk)
                     ELSE res
            ELSE SvcOk(svc, file)
      [] cmd.name = "ExitToNormal" ->
            SvcOk(IF svc.command_line.active
                  THEN [svc EXCEPT !.command_line = CommandLine_deactivate(@)]
                  ELSE svc, file)
      [] cmd.name = "Save" -> EditorService_save(svc, file, write_ok)
      [] cmd.name = "Quit" -> SvcOk(EditorService_quit(svc), file)
      [] cmd.name = "SaveAndQuit" -> EditorService_save_and_quit(svc, file, write_ok)
      [] cmd.name = "ForceQuit" -> SvcOk(EditorService_force_quit(svc), file)
      [] OTHER ->
            EditorService_after_bindings(
                svc, file, VimBindings_execute_command(cmd, svc.cursor, svc.buffer))

\* the cursor adjustment that ends execute_command, skipped when `?` returned
EditorService_adjusted(res) ==
    IF res.ok THEN SvcOk(EditorService_adjust_cursor_position(res.svc), res.disk) ELSE res

EditorService_execute_command(svc, file, cmd, write_ok) ==
    EditorService_adjusted(EditorService_dispatch(svc, file, cmd, write_ok))

\* handle_input once the terminal has delivered `key`
EditorService_handle_input(svc, file, key, write_ok) ==
    LET parsed == VimBindings_parse_key(svc.mode_manager, key) IN
    EditorService_execute_command([svc EXCEPT !.mode_manager = parsed.mm], file,
                                  parsed.cmd, write_ok)

-----------------------------------------------------------------------------
(* editor::Position (src/src/editor/cursor.rs): a move at the boundary    *)
(* returns OutOfBounds and leaves the position.                           *)

PosOk(c) == [ok |-> TRUE, pos |-> c]
PosErr(c) == [ok |-> FALSE, pos |-> c]

Position_move_right(c, line_length) ==
    IF c.col < line_length THEN PosOk([c EXCEPT !.col = @ + 1]) ELSE PosErr(c)

Position_move_left(c) == IF c.col > 0 THEN PosOk([c EXCEPT !.col = @ - 1]) ELSE PosErr(c)

Position_move_down(c, total_lines) ==
    IF c.row + 1 < total_lines THEN PosOk([c EXCEPT !.row = @ + 1]) ELSE PosErr(c)

Position_move_up(c) == IF c.row > 0 THEN PosOk([c EXCEPT !.row = @ - 1]) ELSE PosErr(c)

Position_move_to_line_start(c) == [c EXCEPT !.col = 0]

Position_move_to_line_end(c, line_length) == [c EXCEPT !.col = line_length]

Position_move_to_buffer_start(c) == Position(0, 0)

Position_move_to_buffer_end(c, total_lines, last_line_length) ==
    IF total_lines > 0 THEN Position(total_lines - 1, last_line_length) ELSE Position(0, 0)

M_clamp_to_line_keeps_col(c, line_length) == c

Position_clamp_to_line(c, line_length) ==
    IF c.col > line_length THEN [c EXCEPT !.col = line_length] ELSE c

\* `if let Ok(line_length) = buffer.line_length(cursor.row) { clamp_to_line }`
ClampToRow(b, c) ==
    IF c.row < Len(b.lines) THEN Position_clamp_to_line(c, Len(b.lines[c.row + 1])) ELSE c

Buffer_with_file_path(b, path) == [b EXCEPT !.file_path = <<path>>]

Buffer_to_string(b) == JoinLines(b.lines)

-----------------------------------------------------------------------------
(* vim::KeyMapper (src/src/vim/keymap.rs).                                *)

KeyMapper_map_ctrl_keys(key) ==
    CASE key.code = "Char" /\ key.ch = "r" -> Cmd("Redo")
      [] key.code = "Char" /\ key.ch = "f" -> Cmd("MoveBufferEnd")
      [] key.code = "Char" /\ key.ch = "b" -> Cmd("MoveBufferStart")
      [] OTHER -> Cmd("Noop")

\* the character arms of map_normal_mode
KeyMapper_normal_arms ==
    { <<"h", "MoveLeft">>, <<"j", "MoveDown">>, <<"k", "MoveUp">>, <<"l", "MoveRight">>,
      <<"0", "MoveLineStart">>, <<"$", "MoveLineEnd">>, <<"w", "MoveWordForward">>,
      <<"b", "MoveWordBackward">>, <<"i", "EnterInsert">>, <<"a", "EnterInsertAfter">>,
      <<"o", "EnterInsertNewLine">>, <<"v", "EnterVisual">>, <<":", "EnterCommand">>,
      <<"x", "DeleteChar">>, <<"d", "DeleteLine">>, <<"u", "Undo">> }

KeyMapper_map_normal_mode(key) ==
    IF key.mods = "CONTROL" THEN KeyMapper_map_ctrl_keys(key)
    ELSE LET arms == {a \in KeyMapper_normal_arms : key.code = "Char" /\ a[1] = key.ch} IN
         CASE arms # {} -> Cmd((CHOOSE a \in arms : TRUE)[2])
           [] key.code = "Left" -> Cmd("MoveLeft")
           [] key.code = "Down" -> Cmd("MoveDown")
           [] key.code = "Up" -> Cmd("MoveUp")
           [] key.code = "Right" -> Cmd("MoveRight")
           [] OTHER -> Cmd("Noop")

\* variant: a key without an arm in Insert mode opens a line
M_map_insert_mode_unbound_newline(key) ==
    CASE key.code = "Esc" -> Cmd("ExitToNormal")
      [] key.code = "Char" -> CmdArg("InsertChar", key.ch)
      [] key.code = "Enter" -> Cmd("NewLine")
      [] key.code = "Backspace" -> Cmd("DeleteCharBackward")
      [] OTHER -> Cmd("NewLine")

KeyMapper_map_insert_mode(key) ==
    CASE key.code = "Esc" -> Cmd("ExitToNormal")
      [] key.code = "Char" -> CmdArg("InsertChar", key.ch)
      [] key.code = "Enter" -> Cmd("NewLine")
      [] key.code = "Backspace" -> Cmd("DeleteCharBackward")
      [] OTHER -> Cmd("Noop")

KeyMapper_map_visual_mode(key) ==
    CASE key.code = "Esc" -> Cmd("ExitToNormal")
      [] key.code = "Char" /\ key.ch = "i" -> Cmd("EnterInsert")
      [] key.code = "Char" /\ key.ch = "h" -> Cmd("MoveLeft")
      [] key.code = "Char" /\ key.ch = "j" -> Cmd("MoveDown")
      [] key.code = "Char" /\ key.ch = "k" -> Cmd("MoveUp")
      [] key.code = "Char" /\ key.ch = "l" -> Cmd("MoveRight")
      [] OTHER -> Cmd("Noop")

KeyMapper_map_command_mode(key, mode) ==
    CASE key.code = "Esc" -> Cmd("ExitToNormal")
      [] key.code = "Enter" ->
            IF mode.tag = "Command" THEN CmdArg("ExecuteCommand", mode.input)
            ELSE Cmd("ExitToNormal")
      [] key.code = "Char" -> CmdArg("CommandInput", key.ch)
      [] key.code = "Backspace" -> Cmd("CommandBackspace")
      [] OTHER -> Cmd("Noop")

KeyMapper_map_key(key, mode) ==
    CASE mode.tag = "Normal" -> KeyMapper_map_normal_mode(key)
      [] mode.tag = "Insert" -> KeyMapper_map_insert_mode(key)
      [] mode.tag = "Visual" -> KeyMapper_map_visual_mode(key)
      [] mode.tag = "Command" -> KeyMapper_map_command_mode(key, mode)

-----------------------------------------------------------------------------
(* vim::VimCommand::execute (src/src/vim/command.rs).  The result is Ok   *)
(* with a CommandResult, or Err, with the buffer and the cursor after it. *)

CmdOk(b, c, result) == [ok |-> TRUE, err |-> "", buf |-> b, cursor |-> c, result |-> result]
CmdErr(b, c, e) == [ok |-> FALSE, err |-> e, buf |-> b, cursor |-> c, result |-> "None"]

\* `?` on a buffer result
CmdTry(c, res, then) == IF res.ok THEN then ELSE CmdErr(res.buf, c, res.err)

\* the arms of execute that command.rs does not hold although keymap.rs and
\* main.rs use their variants: the command-line variants are mode transitions
\* for the control loop, ExecuteCommand turns the four command-line verbs into
\* their result tags, and DeleteCharBackward deletes the character before the
\* cursor or joins the line to the one above it
RECURSIVE VimCommand_reinsert(_, _, _)
VimCommand_reinsert(b, c, chars) ==
    IF Len(chars) = 0 THEN CmdOk(b, c, "None")
    ELSE LET res == Buffer_insert_char(b, c, Head(chars)) IN
         CmdTry(c, res, VimCommand_reinsert(res.buf, [c EXCEPT !.col = @ + 1], Tail(chars)))

VimCommand_execute_missing(cmd, b, c) ==
    CASE cmd.name \in {"CommandInput", "CommandBackspace"} -> CmdOk(b, c, "ModeTransition")
      [] cmd.name = "ExecuteCommand" ->
            CmdOk(b, c, CASE cmd.arg = <<"w">> -> "SaveRequested"
                          [] cmd.arg = <<"q">> -> "QuitRequested"
                          [] cmd.arg = <<"w", "q">> -> "SaveAndQuitRequested"
                          [] cmd.arg = <<"q", "!">> -> "ForceQuitRequested"
                          [] OTHER -> "ModeTransition")
      [] cmd.name = "DeleteCharBackward" ->
            IF c.col > 0
            THEN LET c1 == Position_move_left(c).pos
                     res == Buffer_delete_char(b, c1)
                 IN  CmdTry(c1, res, CmdOk(res.buf, c1, "None"))
            ELSE IF c.row > 0 /\ c.row < Len(b.lines)
            THEN LET res == Buffer_delete_line(b, c.row) IN
                 CmdTry(c, res, VimCommand_reinsert(
                                    res.buf, Position(c.row - 1, Len(b.lines[c.row])),
                                    b.lines[c.row + 1]))
            ELSE CmdOk(b, c, "None")

VimCommand_execute(cmd, b, c) ==
    CASE cmd.name = "MoveLeft" -> CmdOk(b, Position_move_left(c).pos, "None")
      [] cmd.name = "MoveDown" ->
            CmdOk(b, ClampToRow(b, Position_move_down(c, Buffer_line_count(b)).pos), "None")
      [] cmd.name = "MoveUp" -> CmdOk(b, ClampToRow(b, Position_move_up(c).pos), "None")
      [] cmd.name = "MoveRight" ->
            CmdOk(b, IF c.row < Len(b.lines)
                     THEN Position_move_right(c, Len(b.lines[c.row + 1])).pos ELSE c, "None")
      [] cmd.name = "MoveLineStart" -> CmdOk(b, Position_move_to_line_start(c), "None")
      [] cmd.name = "MoveLineEnd" ->
            CmdOk(b, IF c.row < Len(b.lines)
                     THEN Position_move_to_line_end(c, Len(b.lines[c.row + 1])) ELSE c, "None")
      [] cmd.name = "MoveBufferStart" -> CmdOk(b, Position_move_to_buffer_start(c), "None")
      [] cmd.name = "MoveBufferEnd" ->
            LET total_lines == Buffer_line_count(b)
                last_line_length == IF total_lines > 0 THEN Len(b.lines[total_lines]) ELSE 0
            IN  CmdOk(b, Position_move_to_buffer_end(c, total_lines, last_line_length), "None")
      [] cmd.name = "InsertChar" ->
            LET res == Buffer_insert_char(b, c, cmd.arg) IN
            CmdTry(c, res,
                   CmdOk(res.buf, Position_move_right(c, Len(res.buf.lines[c.row + 1])).pos,
                         "None"))
      [] cmd.name = "DeleteChar" ->
            LET res == Buffer_delete_char(b, c) IN
            CmdTry(c, res, CmdOk(res.buf, c, IF res.ret # << >> THEN "DeletedChar" ELSE "None"))
      [] cmd.name = "DeleteLine" ->
            LET res == Buffer_delete_line(b, c.row)
                total_lines == Buffer_line_count(res.buf)
                c1 == IF c.row >= total_lines /\ total_lines > 0
                      THEN [c EXCEPT !.row = total_lines - 1] ELSE c
            IN  CmdTry(c, res, CmdOk(res.buf, ClampToRow(res.buf, c1), "DeletedLine"))
      [] cmd.name = "NewLine" ->
            LET res == Buffer_insert_line(b, c.row + 1) IN
            CmdTry(c, res, CmdOk(res.buf, Position(c.row + 1, 0), "None"))
      [] cmd.name = "Undo" -> LET res == Buffer_undo(b) IN CmdTry(c, res, CmdOk(res.buf, c, "None"))
      [] cmd.name = "Redo" -> LET res == Buffer_redo(b) IN CmdTry(c, res, CmdOk(res.buf, c, "None"))
      [] cmd.name \in {"EnterInsert", "EnterInsertAfter", "EnterInsertNewLine", "EnterVisual",
                       "EnterCommand", "ExitToNormal"} -> CmdOk(b, c, "ModeTransition")
      [] cmd.name = "Save" -> CmdOk(b, c, "SaveRequested")
      [] cmd.name = "Quit" -> CmdOk(b, c, "QuitRequested")
      [] cmd.name = "SaveAndQuit" -> CmdOk(b, c, "SaveAndQuitRequested")
      [] cmd.name = "ForceQuit" -> CmdOk(b, c, "ForceQuitRequested")
      [] cmd.name \in {"MoveWordForward", "MoveWordBackward", "Noop"} -> CmdOk(b, c, "None")
      [] OTHER -> VimCommand_execute_missing(cmd, b, c)

-----------------------------------------------------------------------------
(* Editor (src/src/main.rs): editor::Buffer, editor::Position and         *)
(* vim::ModeManager under the run loop of the binary.                     *)

Editor_new ==
    [buffer |-> Buffer_new, cursor |-> Position(0, 0), mode_manager |-> VimModeManager_new,
     file_path |-> << >>, should_quit |-> FALSE]

\* with_file(path) on a file that exists and holds `content`
Editor_with_file(path, content) ==
    [Editor_new EXCEPT !.buffer = Buffer_with_file_path(Buffer_from_content(content), path),
                       !.file_path = <<path>>]

\* the result of a handler: Ok or Err, with the editor and the file after it
EdOk(ed, file) == [ok |-> TRUE, err |-> "", ed |-> ed, disk |-> file]
EdErr(ed, file, e) == [ok |-> FALSE, err |-> e, ed |-> ed, disk |-> file]

Editor_handle_mode_transition(ed, file, cmd) ==
    CASE cmd.name = "EnterInsert" ->
            EdOk([ed EXCEPT !.mode_manager = VimModeManager_enter_insert(@)], file)
      [] cmd.name = "EnterInsertAfter" ->
            EdOk([ed EXCEPT
                     !.mode_manager = VimModeManager_enter_insert(@),
                     !.cursor = IF @.row < Len(ed.buffer.lines)
                                THEN Position_move_right(@, Len(ed.buffer.lines[@.row + 1])).pos
                                ELSE @], file)
      [] cmd.name = "EnterInsertNewLine" ->
            LET res == Buffer_insert_line(ed.buffer, ed.cursor.row + 1) IN
            IF res.ok
            THEN EdOk([ed EXCEPT !.buffer = res.buf,
                                 !.cursor = Position(ed.cursor.row + 1, 0),
                                 !.mode_manager = VimModeManager_enter_insert(@)], file)
            ELSE EdErr(ed, file, res.err)
      [] cmd.name = "EnterVisual" ->
            EdOk([ed EXCEPT !.mode_manager = VimModeManager_enter_visual(@, ed.cursor)], file)
      [] cmd.name = "EnterCommand" ->
            EdOk([ed EXCEPT !.mode_manager = VimModeManager_enter_command(@)], file)
      [] cmd.name = "ExitToNormal" ->
            EdOk([ed EXCEPT !.mode_manager = VimModeManager_enter_normal(@)], file)
      [] cmd.name = "CommandInput" ->
            IF ed.mode_manager.current.tag = "Command"
            THEN LET res == VimModeManager_update_command_input(
                                ed.mode_manager, Append(ed.mode_manager.current.input, cmd.arg))
                 IN  IF res.ok THEN EdOk([ed EXCEPT !.mode_manager = res.mm], file)
                     ELSE EdErr(ed, file, res.err)
            ELSE EdOk(ed, file)
      [] cmd.name = "CommandBackspace" ->
            IF ed.mode_manager.current.tag = "Command"
            THEN LET input == ed.mode_manager.current.input
                     res == VimModeManager_update_command_input(
                                ed.mode_manager, SubSeq(input, 1, SatSub(Len(input), 1)))
                 IN  IF res.ok THEN EdOk([ed EXCEPT !.mode_manager = res.mm], file)
                     ELSE EdErr(ed, file, res.err)
            ELSE EdOk(ed, file)
      [] cmd.name = "ExecuteCommand" ->
            EdOk([ed EXCEPT !.mode_manager = VimModeManager_enter_normal(@)], file)
      [] OTHER -> EdOk(ed, file)

Editor_save_file(ed, file, write_ok) ==
    IF ed.file_path # << >>
    THEN LET w == FileSystem_write_file(file, Buffer_to_string(ed.buffer), write_ok) IN
         IF w.ok THEN EdOk([ed EXCEPT !.buffer = Buffer_mark_saved(@)], w.disk)
         ELSE EdErr(ed, w.disk, "Io")
    ELSE EdErr(ed, file, "Config")

Editor_adjust_cursor_position(ed) ==
    LET total_lines == Buffer_line_count(ed.buffer)
        c1 == IF ed.cursor.row >= total_lines
              THEN [ed.cursor EXCEPT !.row = SatSub(total_lines, 1)] ELSE ed.cursor
    IN  [ed EXCEPT !.cursor = ClampToRow(ed.buffer, c1)]

\* if the mode is Command, enter_normal()
Editor_leave_command(ed) ==
    IF ed.mode_manager.current.tag = "Command"
    THEN [ed EXCEPT !.mode_manager = VimModeManager_enter_normal(@)] ELSE ed

\* the QuitRequested arm; `returned` when the arm ends with `return Ok(())`,
\* before the cursor is adjusted
Editor_quit_requested(ed) ==
    IF Buffer_is_modified(ed.buffer)
    THEN [returned |-> TRUE, ed |-> Editor_leave_command(ed)]
    ELSE [returned |-> FALSE, ed |-> [ed EXCEPT !.should_quit = TRUE]]

\* the match on the CommandResult in handle_input, then the cursor adjustment
Editor_handle_result(ed, file, cmd, result, write_ok) ==
    LET after ==
            CASE result = "ModeTransition" -> Editor_handle_mode_transition(ed, file, cmd)
              [] result = "SaveRequested" ->
                    LET res == Editor_save_file(ed, file, write_ok) IN
                    IF res.ok THEN EdOk(Editor_leave_command(res.ed), res.disk) ELSE res
              [] result = "QuitRequested" -> EdOk(Editor_quit_requested(ed).ed, file)
              [] result = "SaveAndQuitRequested" ->
                    LET res == Editor_save_file(ed, file, write_ok) IN
                    IF res.ok THEN EdOk([res.ed EXCEPT !.should_quit = TRUE], res.disk) ELSE res
              [] result = "ForceQuitRequested" -> EdOk([ed EXCEPT !.should_quit = TRUE], file)
              [] OTHER -> EdOk(ed, file)
    IN  IF ~after.ok THEN after
        ELSE IF result = "QuitRequested" /\ Editor_quit_requested(ed).returned THEN after
        ELSE EdOk(Editor_adjust_cursor_position(after.ed), after.disk)

\* handle_input once the terminal has delivered `key`
Editor_handle_input(ed, file, key, write_ok) ==
    LET cmd == KeyMapper_map_key(key, ed.mode_manager.current)
        res == VimCommand_execute(cmd, ed.buffer, ed.cursor)
        ed1 == [ed EXCEPT !.buffer = res.buf, !.cursor = res.cursor]
    IN  IF res.ok THEN Editor_handle_result(ed1, file, cmd, res.result, write_ok)
        ELSE EdErr(ed1, file, res.err)

-----------------------------------------------------------------------------
(* Specification SpecBuffer: any interleaving of the public operations of *)
(* editor::Buffer on a buffer made by new() or from_content().           *)

\* text handed to from_content()
InitContents ==
    { <<>>, <<"a">>, <<"a", "b">>, <<"b", NL, "a">>, <<"a", CR, NL>>, <<NL, "b">> }

InitBuffers == {Buffer_new} \cup {Buffer_from_content(c) : c \in InitContents}

Rows == 0 .. MaxLines
Cols == 0 .. (MaxLen + 1)

\* the record of a call: its name, its result and the buffer it was made on
Call(op, res, pre) ==
    [op |-> op, ok |-> res.ok, err |-> res.err, ret |-> res.ret, pre |-> pre]

NoRt == [phase |-> "off", n |-> 0, k |-> 0, start |-> << >>, all_ok |-> TRUE]

\* the front ends when no run loop is part of the specification
LoopIdle ==
    /\ service = EditorService_new
    /\ editor = Editor_new
    /\ disk = << >>
    /\ run = [app |-> "none", status |-> "off"]

BufInit ==
    /\ buffer \in InitBuffers
    /\ last = [op |-> "new", ok |-> TRUE, err |-> "", ret |-> <<>>, pre |-> buffer]
    /\ unreverted = 0
    /\ save_point = 0
    /\ rt = NoRt
    /\ dmode = DomainModeManager_new
    /\ vmode = VimModeManager_new
    /\ LoopIdle

\* the save point after a call that took the buffer from b to b2: an edit made
\* below the save point discards the actions that led to the saved text
SavePointAfter(b, b2) ==
    IF b2.undo_stack # b.undo_stack /\ Len(b.undo_stack) < save_point THEN -1 ELSE save_point

\* the undo stack is not the one the buffer was saved (or created) with
AwayFromSave == Len(buffer.undo_stack) # save_point

\* room left for one more recorded action
HistRoom(b) == Len(b.undo_stack) < MaxHist

BufInsertChar ==
    \E r \in Rows, c \in Cols, ch \in Chars :
        LET res == Buffer_insert_char(buffer, Position(r, c), ch) IN
        /\ res.ok => (HistRoom(buffer) /\ Len(buffer.lines[r + 1]) < MaxLen)
        /\ buffer' = res.buf
        /\ last' = Call("insert_char", res, buffer)
        /\ unreverted' = IF res.ok THEN unreverted + 1 ELSE unreverted
        /\ save_point' = SavePointAfter(buffer, res.buf)
        /\ UNCHANGED <<rt, modeVars, loopVars>>

BufDeleteChar ==
    \E r \in Rows, c \in Cols :
        LET res == Buffer_delete_char(buffer, Position(r, c)) IN
        /\ (res.ok /\ res.ret # <<>>) => HistRoom(buffer)
        /\ buffer' = res.buf
        /\ last' = Call("delete_char", res, buffer)
        /\ unreverted' = IF res.ok /\ res.ret # <<>> THEN unreverted + 1 ELSE unreverted
        /\ save_point' = SavePointAfter(buffer, res.buf)
        /\ UNCHANGED <<rt, modeVars, loopVars>>

BufInsertLine ==
    \E r \in 0 .. (MaxLines + 1) :
        LET res == Buffer_insert_line(buffer, r) IN
        /\ res.ok => (HistRoom(buffer) /\ Len(buffer.lines) < MaxLines)
        /\ buffer' = res.buf
        /\ last' = Call("insert_line", res, buffer)
        /\ unreverted' = IF res.ok THEN unreverted + 1 ELSE unreverted
        /\ save_point' = SavePointAfter(buffer, res.buf)
        /\ UNCHANGED <<rt, modeVars, loopVars>>

BufDeleteLine ==
    \E r \in Rows :
        LET res == Buffer_delete_line(buffer, r) IN
        /\ res.ok => HistRoom(buffer)
        /\ buffer' = res.buf
        /\ last' = Call("delete_line", res, buffer)
        /\ unreverted' = IF res.ok THEN unreverted + 1 ELSE unreverted
        /\ save_point' = SavePointAfter(buffer, res.buf)
        /\ UNCHANGED <<rt, modeVars, loopVars>>

BufUndo ==
    LET res == Buffer_undo(buffer) IN
    /\ buffer' = res.buf
    /\ last' = Call("undo", res, buffer)
    /\ unreverted' = IF res.ok /\ unreverted > 0 THEN unreverted - 1 ELSE unreverted
    /\ UNCHANGED <<rt, save_point, modeVars, loopVars>>

BufRedo ==
    LET res == Buffer_redo(buffer) IN
    /\ buffer' = res.buf
    /\ last' = Call("redo", res, buffer)
    /\ unreverted' = IF res.ok THEN unreverted + 1 ELSE unreverted
    /\ UNCHANGED <<rt, save_point, modeVars, loopVars>>

BufMarkSaved ==
    /\ buffer' = Buffer_mark_saved(buffer)
    /\ last' = Call("mark_saved", BufOk(buffer, <<>>), buffer)
    /\ unreverted' = 0
    /\ save_point' = Len(buffer.undo_stack)
    /\ UNCHANGED <<rt, modeVars, loopVars>>

BufNext ==
    \/ BufInsertChar
    \/ BufDeleteChar
    \/ BufInsertLine
    \/ BufDeleteLine
    \/ BufUndo
    \/ BufRedo
    \/ BufMarkSaved

SpecBuffer == BufInit /\ [][BufNext]_vars

-----------------------------------------------------------------------------
(* Specification SpecRoundTrip: a buffer made by new() or from_content(), *)
(* then insert_char calls (rt.n of them succeed), then undo calls.        *)

RtInit ==
    /\ buffer \in InitBuffers
    /\ last = [op |-> "new", ok |-> TRUE, err |-> "", ret |-> <<>>, pre |-> buffer]
    /\ unreverted = 0
    /\ save_point = 0
    /\ rt = [phase |-> "insert", n |-> 0, k |-> 0, start |-> buffer.lines, all_ok |-> TRUE]
    /\ dmode = DomainModeManager_new
    /\ vmode = VimModeManager_new
    /\ LoopIdle

RtInsertChar ==
    /\ rt.phase = "insert"
    /\ rt.n < MaxInserts
    /\ \E r \in Rows, c \in Cols, ch \in Chars :
        LET res == Buffer_insert_char(buffer, Position(r, c), ch) IN
        /\ res.ok => Len(buffer.lines[r + 1]) < MaxLen
        /\ buffer' = res.buf
        /\ last' = Call("insert_char", res, buffer)
        /\ rt' = IF res.ok THEN [rt EXCEPT !.n = @ + 1] ELSE rt
        /\ UNCHANGED <<unreverted, save_point, modeVars, loopVars>>

RtUndo ==
    /\ rt.n >= 1
    /\ rt.k < rt.n
    /\ LET res == Buffer_undo(buffer) IN
        /\ buffer' = res.buf
        /\ last' = Call("undo", res, buffer)
        /\ rt' = [rt EXCEPT !.phase = "undo", !.k = @ + 1, !.all_ok = @ /\ res.ok]
        /\ UNCHANGED <<unreverted, save_point, modeVars, loopVars>>

RtNext == RtInsertChar \/ RtUndo

SpecRoundTrip == RtInit /\ [][RtNext]_vars

-----------------------------------------------------------------------------
(* Specification SpecDomainMode: any sequence of calls on a               *)
(* domain::ModeManager made by new().                                     *)

\* characters handed to transition_with_key
DomainKeys ==
    {"i", "a", "o", "O", "v", ":", "I", "V", "h", "j", "k", "l", "x", "d", "u", "q"}

\* texts handed to transition_with_command
DomainCommands == {"w", "q"}

ModeCall(op, arg, ret, pre) == [op |-> op, arg |-> arg, ret |-> ret, pre |-> pre]

DmInit ==
    /\ dmode = DomainModeManager_new
    /\ last = ModeCall("new", "", TRUE, dmode)
    /\ buffer = Buffer_new
    /\ unreverted = 0
    /\ save_point = 0
    /\ rt = NoRt
    /\ vmode = VimModeManager_new
    /\ LoopIdle

DmTransitionWithKey ==
    \E key \in DomainKeys :
        LET res == DomainModeManager_transition_with_key(dmode, key) IN
        /\ dmode' = res.mm
        /\ last' = ModeCall("transition_with_key", key, res.ret, dmode)
        /\ UNCHANGED <<bufVars, vmode, loopVars>>

DmTransitionWithEscape ==
    LET res == DomainModeManager_transition_with_escape(dmode) IN
    /\ dmode' = res.mm
    /\ last' = ModeCall("transition_with_escape", "", res.ret, dmode)
    /\ UNCHANGED <<bufVars, vmode, loopVars>>

DmTransitionWithCommand ==
    \E command \in DomainCommands :
        LET res == DomainModeManager_transition_with_command(dmode, command) IN
        /\ dmode' = res.mm
        /\ last' = ModeCall("transition_with_command", command, res.ret, dmode)
        /\ UNCHANGED <<bufVars, vmode, loopVars>>

DmResetToNormal ==
    /\ dmode' = DomainModeManager_reset_to_normal(dmode)
    /\ last' = ModeCall("reset_to_normal", "", TRUE, dmode)
    /\ UNCHANGED <<bufVars, vmode, loopVars>>

DmNext ==
    \/ DmTransitionWithKey
    \/ DmTransitionWithEscape
    \/ DmTransitionWithCommand
    \/ DmResetToNormal

SpecDomainMode == DmInit /\ [][DmNext]_vars

-----------------------------------------------------------------------------
(* Specification SpecVimMode: any sequence of calls on a vim::ModeManager *)
(* made by new().                                                         *)

\* positions handed to enter_visual, texts handed to update_command_input
VimStarts == {Position(0, 0), Position(1, 1)}
VimInputs == {<< >>, <<"q">>}

VimTargets ==
    {Mode_Normal, Mode_Insert} \cup {Mode_Visual(p) : p \in VimStarts}
        \cup {Mode_Command(i) : i \in VimInputs}

VmInit ==
    /\ vmode = VimModeManager_new
    /\ last = ModeCall("new", Mode_Normal, TRUE, vmode)
    /\ buffer = Buffer_new
    /\ unreverted = 0
    /\ save_point = 0
    /\ rt = NoRt
    /\ dmode = DomainModeManager_new
    /\ LoopIdle

VmEnterInsert ==
    /\ vmode' = VimModeManager_enter_insert(vmode)
    /\ last' = ModeCall("enter_insert", Mode_Insert, TRUE, vmode)
    /\ UNCHANGED <<bufVars, dmode, loopVars>>

VmEnterVisual ==
    \E start \in VimStarts :
        /\ vmode' = VimModeManager_enter_visual(vmode, start)
        /\ last' = ModeCall("enter_visual", Mode_Visual(start), TRUE, vmode)
        /\ UNCHANGED <<bufVars, dmode, loopVars>>

VmEnterCommand ==
    /\ vmode' = VimModeManager_enter_command(vmode)
    /\ last' = ModeCall("enter_command", Mode_Command(<< >>), TRUE, vmode)
    /\ UNCHANGED <<bufVars, dmode, loopVars>>

VmEnterNormal ==
    /\ vmode' = VimModeManager_enter_normal(vmode)
    /\ last' = ModeCall("enter_normal", Mode_Normal, TRUE, vmode)
    /\ UNCHANGED <<bufVars, dmode, loopVars>>

VmTransitionTo ==
    \E target \in VimTargets :
        /\ vmode' = VimModeManager_transition_to(vmode, target)
        /\ last' = ModeCall("transition_to", target, TRUE, vmode)
        /\ UNCHANGED <<bufVars, dmode, loopVars>>

VmTryTransitionTo ==
    \E target \in VimTargets :
        LET res == VimModeManager_try_transition_to(vmode, target) IN
        /\ vmode' = res.mm
        /\ last' = ModeCall("try_transition_to", target, res.ok, vmode)
        /\ UNCHANGED <<bufVars, dmode, loopVars>>

VmUpdateCommandInput ==
    \E input \in VimInputs :
        LET res == VimModeManager_update_command_input(vmode, input) IN
        /\ vmode' = res.mm
        /\ last' = ModeCall("update_command_input", Mode_Command(input), res.ok, vmode)
        /\ UNCHANGED <<bufVars, dmode, loopVars>>

VmNext ==
    \/ VmEnterInsert
    \/ VmEnterVisual
    \/ VmEnterCommand
    \/ VmEnterNormal
    \/ VmTransitionTo
    \/ VmTryTransitionTo
    \/ VmUpdateCommandInput

SpecVimMode == VmInit /\ [][VmNext]_vars

-----------------------------------------------------------------------------
(* Specification SpecLoop: one of the two front ends reads keys until it  *)
(* quits or its handler returns an error.  run.app names the front end:   *)
(* the EditorService (handle_input on a key, or execute_command on a file *)
(* command the way an embedding caller dispatches it) or the Editor of    *)
(* main.rs.  A key is offered only in a mode where it keeps the text over *)
(* LoopChars and when the state after it is within the bounds.            *)

LoopChars == {"a"}
LoopPath == "f"

\* texts the file may hold when the editor starts
LoopContents == { << >>, <<"a", NL, "a">> }

\* the command lines typed, and the characters they are typed with; Enter on
\* the empty command line stands for a command the editor does not know
LoopCommands == { <<"w">>, <<"q">>, <<"w", "q">>, <<"q", "!">> }
CommandChars == {"w", "q", "!"}

IsPrefix(s, t) == Len(s) <= Len(t) /\ SubSeq(t, 1, Len(s)) = s

Typeable(input) == \E c \in LoopCommands : IsPrefix(input, c)

\* only Enter on a command line reaches write_file
WriteOutcomes(key) == IF key.code = "Enter" THEN BOOLEAN ELSE {TRUE}

\* keys that neither parse_key nor map_key has an arm for in `mode`
UnboundKeys(mode) ==
    CASE mode = "Insert" -> {KeyDelete}
      [] mode = "Command" -> {KeyTab}
      [] mode = "Visual" -> {KeyChar("z")}
      [] OTHER -> {KeyChar("z"), KeyDelete}

\* the keys offered in each mode
LoopKeys(mode) ==
    CASE mode = "Insert" ->
            {KeyEsc, KeyEnter, KeyBackspace, KeyDelete} \cup {KeyChar(c) : c \in LoopChars}
      [] mode = "Command" ->
            {KeyEsc, KeyEnter, KeyBackspace, KeyTab} \cup {KeyChar(c) : c \in CommandChars}
      [] mode = "Visual" -> {KeyEsc} \cup {KeyChar(c) : c \in {"h", "l", "z"}}
      [] OTHER ->
            {KeyEsc, KeyCtrl("r"), KeyDelete, KeyChar("z")}
                \cup {KeyChar(c) : c \in {"h", "j", "k", "l", "0", "$", "i", "a", "o", "v", ":", "x", "d",
                                        "u"}}

\* commands an embedding caller hands to execute_command
FileCommands == {Cmd("Save"), Cmd("Quit"), Cmd("SaveAndQuit"), Cmd("ForceQuit")}

\* the bounds on a buffer and on a command line
BufferWithin(b) ==
    /\ Len(b.lines) <= MaxLines
    /\ \A i \in 1 .. Len(b.lines) : Len(b.lines[i]) <= MaxLen
    /\ Len(b.undo_stack) <= LoopHist

ServiceWithin(svc) ==
    BufferWithin(svc.buffer) /\ Typeable(CommandLine_get_command(svc.command_line))

EditorWithin(ed) ==
    /\ BufferWithin(ed.buffer)
    /\ ed.mode_manager.current.tag = "Command" => Typeable(ed.mode_manager.current.input)

\* the record of a handled input: the handler, the command the key stood for,
\* the command line it executed (if it executed one), what write_file would
\* answer, and what the handler returned
Handled(op, cmd, line, write_ok, res) ==
    [op |-> op, cmd |-> cmd, line |-> line, write_ok |-> write_ok,
     ok |-> res.ok, err |-> res.err]

\* `while !should_quit { render()?; handle_input()?; }`
RunAfter(ok, should_quit) ==
    [run EXCEPT !.status = IF ~ok THEN "failed" ELSE IF should_quit THEN "exited" ELSE "running"]

LoopInit ==
    /\ run \in [app : {"EditorService", "Editor"}, status : {"running"}]
    /\ disk \in {<< >>} \cup {<<c>> : c \in LoopContents}
    /\ service \in IF run.app = "EditorService"
                   THEN {EditorService_with_file(LoopPath, disk)}
                            \cup {svc \in {EditorService_new} : disk = << >>}
                   ELSE {EditorService_new}
    /\ editor \in IF run.app = "Editor"
                  THEN IF disk = << >> THEN {Editor_new}
                       ELSE {Editor_with_file(LoopPath, disk[1])}
                  ELSE {Editor_new}
    /\ last = [op |-> "new", cmd |-> Cmd("Noop"), line |-> << >>, write_ok |-> TRUE,
               ok |-> TRUE, err |-> ""]
    /\ buffer = Buffer_new
    /\ unreverted = 0
    /\ save_point = 0
    /\ rt = NoRt
    /\ dmode = DomainModeManager_new
    /\ vmode = VimModeManager_new

SvcHandleInput ==
    /\ run.app = "EditorService"
    /\ run.status = "running"
    /\ \E key \in LoopKeys(service.mode_manager.current_mode) : \E write_ok \in WriteOutcomes(key) :
       \E res \in {EditorService_handle_input(service, disk, key, write_ok)},
          cmd \in {VimBindings_parse_key(service.mode_manager, key).cmd} :
        LET line == IF cmd.name = "CommandExecute" /\ service.command_line.active
                    THEN CommandLine_get_command(service.command_line) ELSE << >>
        IN
        /\ ServiceWithin(res.svc)
        /\ service' = res.svc
        /\ disk' = res.disk
        /\ run' = RunAfter(res.ok, res.svc.should_quit)
        /\ last' = Handled("handle_input", cmd, line, write_ok, res)
        /\ UNCHANGED <<bufVars, modeVars, editor>>

SvcExecuteCommand ==
    /\ run.app = "EditorService"
    /\ run.status = "running"
    /\ service.mode_manager.current_mode = "Normal"
    /\ \E cmd \in FileCommands :
       \E write_ok \in IF cmd.name \in {"Save", "SaveAndQuit"} THEN BOOLEAN ELSE {TRUE} :
       \E res \in {EditorService_execute_command(service, disk, cmd, write_ok)} :
        /\ service' = res.svc
        /\ disk' = res.disk
        /\ run' = RunAfter(res.ok, res.svc.should_quit)
        /\ last' = Handled("execute_command", cmd, << >>, write_ok, res)
        /\ UNCHANGED <<bufVars, modeVars, editor>>

EdHandleInput ==
    /\ run.app = "Editor"
    /\ run.status = "running"
    /\ \E key \in LoopKeys(editor.mode_manager.current.tag) : \E write_ok \in WriteOutcomes(key) :
       \E res \in {Editor_handle_input(editor, disk, key, write_ok)},
          cmd \in {KeyMapper_map_key(key, editor.mode_manager.current)} :
        LET line == IF cmd.name = "ExecuteCommand" THEN cmd.arg ELSE << >>
        IN
        /\ EditorWithin(res.ed)
        /\ editor' = res.ed
        /\ disk' = res.disk
        /\ run' = RunAfter(res.ok, res.ed.should_quit)
        /\ last' = Handled("handle_input", cmd, line, write_ok, res)
        /\ UNCHANGED <<bufVars, modeVars, service>>

LoopNext ==
    \/ SvcHandleInput
    \/ SvcExecuteCommand
    \/ EdHandleInput

SpecLoop == LoopInit /\ [][LoopNext]_vars

-----------------------------------------------------------------------------
(* Specification SpecKeyMap: the two key lookups on their own.  dmode is  *)
(* the ModeManager a VimBindings owns, which parse_key(&mut self) may     *)
(* change; vmode is the ModeManager of main.rs, whose current mode        *)
(* map_key(&self, key, mode) borrows and which changes when the Editor    *)
(* executes the mapped command.                                           *)

\* the keys looked up
LookupKeys ==
    {KeyEsc, KeyEnter, KeyBackspace, KeyCtrl("r")}
        \cup {KeyChar(c) : c \in {"i", "a", "o", "v", ":", "h", "x", "u", "w", "q"}}

\* the record of a lookup: the key, the command returned and the mode manager
\* the lookup was made with
Lookup(op, key, cmd, pre) == [op |-> op, key |-> key, cmd |-> cmd, pre |-> pre]

KmInit ==
    /\ dmode = DomainModeManager_new
    /\ vmode = VimModeManager_new
    /\ last = [op |-> "new", key |-> KeyEsc, cmd |-> Cmd("Noop"), pre |-> << >>]
    /\ buffer = Buffer_new
    /\ unreverted = 0
    /\ save_point = 0
    /\ rt = NoRt
    /\ LoopIdle

KmParseKey ==
    \E key \in LookupKeys :
    \E parsed \in {VimBindings_parse_key(dmode, key)} :
        /\ dmode' = parsed.mm
        /\ last' = Lookup("parse_key", key, parsed.cmd, dmode)
        /\ UNCHANGED <<bufVars, vmode, loopVars>>

KmMapKey ==
    \E key \in LookupKeys :
        /\ last' = Lookup("map_key", key, KeyMapper_map_key(key, vmode.current), vmode)
        /\ UNCHANGED <<bufVars, modeVars, loopVars>>

\* Editor::handle_input after map_key: the mapped command is executed and, if
\* it is a mode transition, handle_mode_transition changes the mode
KmExecuteMapped ==
    /\ last.op = "map_key"
    /\ \E res \in {Editor_handle_input([Editor_new EXCEPT !.mode_manager = vmode],
                                       << >>, last.key, TRUE)} :
        /\ res.ok
        /\ res.ed.mode_manager.current.tag = "Command"
               => Typeable(res.ed.mode_manager.current.input)
        /\ vmode' = res.ed.mode_manager
        /\ last' = Lookup("execute", last.key, last.cmd, vmode)
        /\ UNCHANGED <<bufVars, dmode, loopVars>>

KmNext ==
    \/ KmParseKey
    \/ KmMapKey
    \/ KmExecuteMapped

SpecKeyMap == KmInit /\ [][KmNext]_vars

-----------------------------------------------------------------------------
(* Specification SpecMove: VimCommand::execute with the movement commands *)
(* on a buffer made by from_content() and a cursor made by                *)
(* Position::new(row, col), which takes any row and column.               *)

MoveContents ==
    { <<"a">>, <<"a", "b", NL, "a">>, <<"a", NL, "a", "b">>, <<NL, "a", "b">>, <<"a", "b", NL>> }

RowMoves == {Cmd("MoveUp"), Cmd("MoveDown"), Cmd("MoveBufferStart"), Cmd("MoveBufferEnd")}

ColMoves == {Cmd("MoveLeft"), Cmd("MoveRight"), Cmd("MoveLineStart"), Cmd("MoveLineEnd")}

\* the record of an executed command: the command, whether it returned Ok and
\* the buffer and the cursor it was executed on
Executed(cmd, res, b, c) ==
    [op |-> "execute", cmd |-> cmd, ok |-> res.ok, buffer |-> b, cursor |-> c]

MvInit ==
    /\ \E content \in MoveContents, r \in Rows, c \in Cols :
           editor = [Editor_new EXCEPT !.buffer = Buffer_from_content(content),
                                       !.cursor = Position(r, c)]
    /\ last = [op |-> "new", cmd |-> Cmd("Noop"), ok |-> TRUE,
               buffer |-> editor.buffer, cursor |-> editor.cursor]
    /\ buffer = Buffer_new
    /\ unreverted = 0
    /\ save_point = 0
    /\ rt = NoRt
    /\ dmode = DomainModeManager_new
    /\ vmode = VimModeManager_new
    /\ service = EditorService_new
    /\ disk = << >>
    /\ run = [app |-> "none", status |-> "off"]

MvRowMove ==
    \E cmd \in RowMoves :
    \E res \in {VimCommand_execute(cmd, editor.buffer, editor.cursor)} :
        /\ editor' = [editor EXCEPT !.buffer = res.buf, !.cursor = res.cursor]
        /\ last' = Executed(cmd, res, editor.buffer, editor.cursor)
        /\ UNCHANGED <<bufVars, modeVars, service, disk, run>>

MvColMove ==
    \E cmd \in ColMoves :
    \E res \in {VimCommand_execute(cmd, editor.buffer, editor.cursor)} :
        /\ editor' = [editor EXCEPT !.buffer = res.buf, !.cursor = res.cursor]
        /\ last' = Executed(cmd, res, editor.buffer, editor.cursor)
        /\ UNCHANGED <<bufVars, modeVars, service, disk, run>>

MvNext ==
    \/ MvRowMove
    \/ MvColMove

SpecMove == MvInit /\ [][MvNext]_vars

-----------------------------------------------------------------------------
(* Specification SpecText: any interleaving of the public operations of   *)
(* editor::Buffer or of domain::TextBuffer (run.app says which) called    *)
(* with any row, column and character, on text that holds a two-byte      *)
(* character.  A call that panics ends the behaviour.                     *)

MaxBytes == 3

TextChars == {"a"} \cup WideChars

TextContents == { << >>, <<"é", ContByte>>, <<"a", NL, "é", ContByte>> }

TextRows == 0 .. MaxLines
TextCols == 0 .. (MaxBytes + 1)

\* the record of a call: its name, its arguments and its result
TextCall(op, row, col, ch, res) ==
    [op |-> op, row |-> row, col |-> col, ch |-> ch,
     ok |-> res.ok, err |-> res.err, ret |-> res.ret]

\* the bounds on the buffer a successful call leaves
TextWithin(b) ==
    /\ Len(b.lines) <= MaxLines
    /\ \A i \in 1 .. Len(b.lines) : Len(b.lines[i]) <= MaxBytes
    /\ Len(b.undo_stack) <= MaxHist

Text_insert_char(b, row, col, ch) ==
    IF run.app = "Buffer" THEN Buffer_insert_char(b, Position(row, col), ch)
    ELSE TextBuffer_insert_char(b, row, col, ch)

Text_delete_char(b, row, col) ==
    IF run.app = "Buffer" THEN Buffer_delete_char(b, Position(row, col))
    ELSE TextBuffer_delete_char(b, row, col)

Text_insert_line(b, row) ==
    IF run.app = "Buffer" THEN Buffer_insert_line(b, row) ELSE TextBuffer_insert_line(b, row)

Text_delete_line(b, row) ==
    IF run.app = "Buffer" THEN Buffer_delete_line(b, row) ELSE TextBuffer_delete_line(b, row)

Text_undo(b) == IF run.app = "Buffer" THEN Buffer_undo(b) ELSE TextBuffer_undo(b)

Text_redo(b) == IF run.app = "Buffer" THEN Buffer_redo(b) ELSE TextBuffer_redo(b)

Text_mark_saved(b) ==
    IF run.app = "Buffer" THEN Buffer_mark_saved(b) ELSE TextBuffer_mark_saved(b)

TxInit ==
    /\ run \in [app : {"Buffer", "TextBuffer"}, status : {"off"}]
    /\ buffer \in IF run.app = "Buffer"
                  THEN {Buffer_new} \cup {Buffer_from_content(c) : c \in TextContents}
                  ELSE {TextBuffer_new} \cup {TextBuffer_from_content(c) : c \in TextContents}
    /\ last = [op |-> "new", row |-> 0, col |-> 0, ch |-> "", ok |-> TRUE, err |-> "",
               ret |-> << >>]
    /\ unreverted = 0
    /\ save_point = 0
    /\ rt = NoRt
    /\ dmode = DomainModeManager_new
    /\ vmode = VimModeManager_new
    /\ service = EditorService_new
    /\ editor = Editor_new
    /\ disk = << >>

TxInsertChar ==
    /\ last.err # "panic"
    /\ \E r \in TextRows, c \in TextCols, ch \in TextChars :
       \E res \in {Text_insert_char(buffer, r, c, ch)} :
        /\ TextWithin(res.buf)
        /\ buffer' = res.buf
        /\ last' = TextCall("insert_char", r, c, ch, res)
        /\ UNCHANGED <<unreverted, save_point, rt, modeVars, loopVars>>

TxDeleteChar ==
    /\ last.err # "panic"
    /\ \E r \in TextRows, c \in TextCols :
       \E res \in {Text_delete_char(buffer, r, c)} :
        /\ TextWithin(res.buf)
        /\ buffer' = res.buf
        /\ last' = TextCall("delete_char", r, c, "", res)
        /\ UNCHANGED <<unreverted, save_point, rt, modeVars, loopVars>>

TxInsertLine ==
    /\ last.err # "panic"
    /\ \E r \in 0 .. (MaxLines + 1) :
       \E res \in {Text_insert_line(buffer, r)} :
        /\ TextWithin(res.buf)
        /\ buffer' = res.buf
        /\ last' = TextCall("insert_line", r, 0, "", res)
        /\ UNCHANGED <<unreverted, save_point, rt, modeVars, loopVars>>

TxDeleteLine ==
    /\ last.err # "panic"
    /\ \E r \in TextRows :
       \E res \in {Text_delete_line(buffer, r)} :
        /\ TextWithin(res.buf)
        /\ buffer' = res.buf
        /\ last' = TextCall("delete_line", r, 0, "", res)
        /\ UNCHANGED <<unreverted, save_point, rt, modeVars, loopVars>>

TxUndo ==
    /\ last.err # "panic"
    /\ \E res \in {Text_undo(buffer)} :
        /\ buffer' = res.buf
        /\ last' = TextCall("undo", 0, 0, "", res)
        /\ UNCHANGED <<unreverted, save_point, rt, modeVars, loopVars>>

TxRedo ==
    /\ last.err # "panic"
    /\ \E res \in {Text_redo(buffer)} :
        /\ buffer' = res.buf
        /\ last' = TextCall("redo", 0, 0, "", res)
        /\ UNCHANGED <<unreverted, save_point, rt, modeVars, loopVars>>

TxMarkSaved ==
    /\ last.err # "panic"
    /\ buffer' = Text_mark_saved(buffer)
    /\ last' = TextCall("mark_saved", 0, 0, "", BufOk(buffer, << >>))
    /\ UNCHANGED <<unreverted, save_point, rt, modeVars, loopVars>>

TxNext ==
    \/ TxInsertChar
    \/ TxDeleteChar
    \/ TxInsertLine
    \/ TxDeleteLine
    \/ TxUndo
    \/ TxRedo
    \/ TxMarkSaved

SpecText == TxInit /\ [][TxNext]_vars

-----------------------------------------------------------------------------
(* Specification SpecCursor: the four one-step moves of editor::Position  *)
(* and of domain::CursorPosition, called in any order with any line       *)
(* length and line count, from any cursor.  The Position is the cursor of *)
(* `editor`, the CursorPosition the cursor of `service`.                  *)

LineLengths == 0 .. MaxLen
LineCounts == 0 .. MaxLines

CuCursor == IF run.app = "Position" THEN editor.cursor ELSE service.cursor

\* a CursorPosition move returns nothing
CuDone(c) == [ok |-> TRUE, pos |-> c]

Cu_move_left ==
    IF run.app = "Position" THEN Position_move_left(editor.cursor)
    ELSE CuDone(CursorPosition_move_left(service.cursor))

Cu_move_right(line_length) ==
    IF run.app = "Position" THEN Position_move_right(editor.cursor, line_length)
    ELSE CuDone(CursorPosition_move_right(service.cursor, line_length))

Cu_move_up ==
    IF run.app = "Position" THEN Position_move_up(editor.cursor)
    ELSE CuDone(CursorPosition_move_up(service.cursor))

Cu_move_down(line_count) ==
    IF run.app = "Position" THEN Position_move_down(editor.cursor, line_count)
    ELSE CuDone(CursorPosition_move_down(service.cursor, line_count))

\* the record of a move: its name, its argument (0 when it has none), whether
\* it returned Ok, and the cursor it was called on
CuAfter(op, arg, res) ==
    /\ IF run.app = "Position"
       THEN editor' = [editor EXCEPT !.cursor = res.pos] /\ UNCHANGED service
       ELSE service' = [service EXCEPT !.cursor = res.pos] /\ UNCHANGED editor
    /\ last' = [op |-> op, arg |-> arg, ok |-> res.ok, pre |-> CuCursor]
    /\ UNCHANGED <<bufVars, modeVars, disk, run>>

CuInit ==
    /\ run \in [app : {"Position", "CursorPosition"}, status : {"off"}]
    /\ \E r \in Rows, c \in Cols :
        /\ editor = IF run.app = "Position"
                    THEN [Editor_new EXCEPT !.cursor = Position(r, c)] ELSE Editor_new
        /\ service = IF run.app = "CursorPosition"
                     THEN [EditorService_new EXCEPT !.cursor = CursorPosition(r, c)]
                     ELSE EditorService_new
        /\ last = [op |-> "new", arg |-> 0, ok |-> TRUE, pre |-> Position(r, c)]
    /\ disk = << >>
    /\ buffer = Buffer_new
    /\ unreverted = 0
    /\ save_point = 0
    /\ rt = NoRt
    /\ dmode = DomainModeManager_new
    /\ vmode = VimModeManager_new

CuMoveLeft == \E res \in {Cu_move_left} : CuAfter("move_left", 0, res)

CuMoveRight ==
    \E line_length \in LineLengths : \E res \in {Cu_move_right(line_length)} :
        CuAfter("move_right", line_length, res)

CuMoveUp == \E res \in {Cu_move_up} : CuAfter("move_up", 0, res)

CuMoveDown ==
    \E line_count \in LineCounts : \E res \in {Cu_move_down(line_count)} :
        CuAfter("move_down", line_count, res)

CuNext ==
    \/ CuMoveLeft
    \/ CuMoveRight
    \/ CuMoveUp
    \/ CuMoveDown

SpecCursor == CuInit /\ [][CuNext]_vars

-----------------------------------------------------------------------------
(* Specification SpecCmdLine: the command line of the EditorService,      *)
(* typed key by key.  ':' opens it, characters and Backspace edit it,     *)
(* Enter executes it and Esc leaves it; 'x' and 'u' in Normal mode change *)
(* the buffer between two command lines.  last.typed is the text a user   *)
(* has typed since ':' net of the Backspaces, kept beside the content the *)
(* code builds.  The same specification runs a vim::ModeManager on its    *)
(* own, whose Mode::Command carries the command line of main.rs.          *)

MaxTyped == 3

\* characters typed on the command line, one of them two bytes long and one
\* the ':' that opens a command line in Normal mode
CmdLineChars == {"w", "q", "!", ":"} \cup WideChars
CmdLineContents == { << >>, <<"a">> }

TypedAfter(cmd, typed, active) ==
    CASE cmd.name = "EnterCommandMode" -> << >>
      [] cmd.name = "CommandChar" /\ active -> Append(typed, cmd.arg)
      [] cmd.name = "CommandBackspace" /\ active /\ typed # << >> -> Pop(typed)
      [] OTHER -> typed

\* the bytes of a text given by its characters
RECURSIVE Utf8Text(_)
Utf8Text(chars) ==
    IF Len(chars) = 0 THEN << >> ELSE Utf8(Head(chars)) \o Utf8Text(Tail(chars))

ClHandled(cmd, write_ok, res) ==
    [op |-> "handle_input", cmd |-> cmd,
     typed |-> TypedAfter(cmd, last.typed, service.command_line.active),
     line |-> IF cmd.name = "CommandExecute" /\ service.command_line.active
              THEN CommandLine_get_command(service.command_line) ELSE << >>,
     write_ok |-> write_ok, ok |-> res.ok, err |-> res.err]

\* handle_input on `key`, which parse_key reads as `cmd`
ClAfter(key, cmd, write_ok) ==
    \E res \in {EditorService_handle_input(service, disk, key, write_ok)} :
        /\ Len(StrChars(res.svc.command_line.content)) <= MaxTyped + 1
        /\ Len(res.svc.buffer.undo_stack) <= LoopHist
        /\ service' = res.svc
        /\ disk' = res.disk
        /\ run' = RunAfter(res.ok, res.svc.should_quit)
        /\ last' = ClHandled(cmd, write_ok, res)
        /\ UNCHANGED <<bufVars, modeVars, editor>>

ClParsed(key) == VimBindings_parse_key(service.mode_manager, key).cmd

ClInit ==
    /\ run \in {[app |-> "EditorService", status |-> "running"],
                [app |-> "ModeManager", status |-> "off"]}
    /\ disk \in {<< >>} \cup {<<c>> : c \in CmdLineContents}
    /\ service \in IF run.app = "EditorService"
                   THEN {EditorService_with_file(LoopPath, disk)}
                            \cup {svc \in {EditorService_new} : disk = << >>}
                   ELSE {svc \in {EditorService_new} : disk = << >>}
    /\ editor = Editor_new
    /\ last = [op |-> "new", cmd |-> Cmd("Noop"), typed |-> << >>, line |-> << >>,
               write_ok |-> TRUE, ok |-> TRUE, err |-> ""]
    /\ buffer = Buffer_new
    /\ unreverted = 0
    /\ save_point = 0
    /\ rt = NoRt
    /\ dmode = DomainModeManager_new
    /\ vmode = VimModeManager_new

ClEnterCommandMode ==
    /\ run.status = "running"
    /\ \E cmd \in {ClParsed(KeyChar(":"))} :
          cmd.name = "EnterCommandMode" /\ ClAfter(KeyChar(":"), cmd, TRUE)

ClCommandChar ==
    /\ run.status = "running"
    /\ \E c \in CmdLineChars : \E cmd \in {ClParsed(KeyChar(c))} :
          cmd.name = "CommandChar" /\ ClAfter(KeyChar(c), cmd, TRUE)

ClCommandBackspace ==
    /\ run.status = "running"
    /\ \E cmd \in {ClParsed(KeyBackspace)} :
          cmd.name = "CommandBackspace" /\ ClAfter(KeyBackspace, cmd, TRUE)

ClCommandExecute ==
    /\ run.status = "running"
    /\ \E write_ok \in BOOLEAN : \E cmd \in {ClParsed(KeyEnter)} :
          cmd.name = "CommandExecute" /\ ClAfter(KeyEnter, cmd, write_ok)

ClExitToNormal ==
    /\ run.status = "running"
    /\ \E cmd \in {ClParsed(KeyEsc)} :
          cmd.name = "ExitToNormal" /\ ClAfter(KeyEsc, cmd, TRUE)

\* 'x' and 'u' in Normal mode
ClEdit ==
    /\ run.status = "running"
    /\ \E c \in {"x", "u"} : \E cmd \in {ClParsed(KeyChar(c))} :
          cmd.name \in {"DeleteChar", "Undo"} /\ ClAfter(KeyChar(c), cmd, TRUE)

\* the calls on a vim::ModeManager of its own, where the command line is the
\* input of Mode::Command
ClModeManager == run.app = "ModeManager" /\ VmNext

ClNext ==
    \/ ClModeManager
    \/ ClEnterCommandMode
    \/ ClCommandChar
    \/ ClCommandBackspace
    \/ ClCommandExecute
    \/ ClExitToNormal
    \/ ClEdit

SpecCmdLine == ClInit /\ [][ClNext]_vars

-----------------------------------------------------------------------------
(* Specification SpecCommand: the edit commands executed one after the    *)
(* other by vim::VimCommand::execute on an editor::Buffer and a Position  *)
(* (run.app = "VimCommand", in `editor`) or by VimBindings::execute_command *)
(* on a TextBuffer and a CursorPosition (run.app = "VimBindings", in      *)
(* `service`).  The text may hold a two-byte character; the first cursor  *)
(* is any position.  A command that panics ends the behaviour.            *)

CommandContents == { << >>, <<"a", NL, "a">>, <<"é", ContByte, NL, "a">> }

\* the buffer and the cursor the commands are executed on
CmBuffer == IF run.app = "VimCommand" THEN editor.buffer ELSE service.buffer
CmCursor == IF run.app = "VimCommand" THEN editor.cursor ELSE service.cursor

\* the command executed by the front end that runs: {ok, err, buf, cursor}
Cm_execute(cmd) ==
    IF run.app = "VimCommand" THEN VimCommand_execute(cmd, editor.buffer, editor.cursor)
    ELSE VimBindings_execute_command(cmd, service.cursor, service.buffer)

\* the record of an executed command
CmExecuted(cmd, res) == [op |-> "execute", cmd |-> cmd, ok |-> res.ok, err |-> res.err]

\* the buffer and the cursor a command left are those of the next state
CmAfter(cmd, res) ==
    /\ TextWithin(res.buf)
    /\ IF run.app = "VimCommand"
       THEN /\ editor' = [editor EXCEPT !.buffer = res.buf, !.cursor = res.cursor]
            /\ UNCHANGED service
       ELSE /\ service' = [service EXCEPT !.buffer = res.buf, !.cursor = res.cursor]
            /\ UNCHANGED editor
    /\ last' = CmExecuted(cmd, res)
    /\ UNCHANGED <<bufVars, modeVars, disk, run>>

CmInit ==
    /\ run \in [app : {"VimCommand", "VimBindings"}, status : {"off"}]
    /\ \E content \in CommandContents, r \in TextRows, c \in TextCols :
          IF run.app = "VimCommand"
          THEN /\ editor = [Editor_new EXCEPT !.buffer = Buffer_from_content(content),
                                              !.cursor = Position(r, c)]
               /\ service = EditorService_new
          ELSE /\ service = [EditorService_new EXCEPT
                                !.buffer = TextBuffer_from_content(content),
                                !.cursor = CursorPosition(r, c)]
               /\ editor = Editor_new
    /\ last = [op |-> "new", cmd |-> Cmd("Noop"), ok |-> TRUE, err |-> ""]
    /\ buffer = Buffer_new
    /\ unreverted = 0
    /\ save_point = 0
    /\ rt = NoRt
    /\ dmode = DomainModeManager_new
    /\ vmode = VimModeManager_new
    /\ disk = << >>

CmInsertChar ==
    /\ last.err # "panic"
    /\ \E ch \in TextChars : \E res \in {Cm_execute(CmdArg("InsertChar", ch))} :
          CmAfter(CmdArg("InsertChar", ch), res)

\* Enter in Insert mode: InsertChar('\n') for VimBindings, NewLine for VimCommand
CmNewLine ==
    /\ last.err # "panic"
    /\ \E cmd \in IF run.app = "VimCommand" THEN {Cmd("NewLine")} ELSE {CmdArg("InsertChar", NL)} :
       \E res \in {Cm_execute(cmd)} : CmAfter(cmd, res)

CmBackspace ==
    /\ last.err # "panic"
    /\ run.app = "VimBindings"
    /\ \E res \in {Cm_execute(Cmd("Backspace"))} : CmAfter(Cmd("Backspace"), res)

CmDelete ==
    /\ last.err # "panic"
    /\ \E cmd \in {Cmd("DeleteChar"), Cmd("DeleteLine")} :
       \E res \in {Cm_execute(cmd)} : CmAfter(cmd, res)

CmUndoRedo ==
    /\ last.err # "panic"
    /\ \E cmd \in {Cmd("Undo"), Cmd("Redo")} :
       \E res \in {Cm_execute(cmd)} : CmAfter(cmd, res)

CmMove ==
    /\ last.err # "panic"
    /\ \E cmd \in {Cmd("MoveLeft"), Cmd("MoveRight"), Cmd("MoveUp"), Cmd("MoveDown")} :
       \E res \in {Cm_execute(cmd)} : CmAfter(cmd, res)

\* the command of a key without a binding
CmNoop ==
    /\ last.err # "panic"
    /\ \E cmd \in IF run.app = "VimCommand" THEN {Cmd("Noop")} ELSE {Cmd("Unknown")} :
       \E res \in {Cm_execute(cmd)} : CmAfter(cmd, res)

CmNext ==
    \/ CmInsertChar
    \/ CmNewLine
    \/ CmBackspace
    \/ CmDelete
    \/ CmUndoRedo
    \/ CmMove
    \/ CmNoop

SpecCommand == CmInit /\ [][CmNext]_vars

Spec == SpecBuffer

-----------------------------------------------------------------------------
(* Properties of editor::Buffer.                                          *)

\* C1: on a fresh buffer, n >= 1 successful insert_char calls followed by n
\* undo calls end with the lines the buffer started with and is_modified()
\* false, and each of the n undo calls succeeds.
C1_InsertUndoRoundTrip ==
    (rt.phase = "undo" /\ rt.k = rt.n) =>
        /\ buffer.lines = rt.start
        /\ ~Buffer_is_modified(buffer)
        /\ rt.all_ok

C1_Witness ==
    /\ rt.phase = "undo"
    /\ rt.n = MaxInserts
    /\ rt.k = rt.n
    /\ Len(rt.start) = 2
    /\ last.op = "undo"
    /\ last.pre.lines # buffer.lines

\* C2: is_modified() is true exactly when some action applied since the last
\* mark_saved (or since creation) has not been reverted.  "Applied since the
\* save" can be read as counting the recorded edits only (unreverted) or as
\* counting undo and redo steps too (AwayFromSave); the formula states the
\* claim where both readings agree.
C2_ModifiedIffUnreverted ==
    /\ (unreverted > 0 /\ AwayFromSave) => Buffer_is_modified(buffer)
    /\ (unreverted = 0 /\ ~AwayFromSave) => ~Buffer_is_modified(buffer)

\* C3: the buffer always has at least one line.
C3_AtLeastOneLine == Buffer_line_count(buffer) >= 1

\* delete_line has just been called on a one-line buffer holding text
C3_Witness ==
    /\ last.op = "delete_line"
    /\ last.ok
    /\ Len(last.pre.lines) = 1
    /\ last.pre.lines[1] # <<>>
    /\ buffer.lines = << <<>> >>

\* C4: when undo() has just succeeded, an immediate redo() succeeds and gives
\* back the lines, the undo stack and the redo stack that held before the undo.
C4_UndoThenRedo ==
    (last.op = "undo" /\ last.ok) =>
        LET r == Buffer_redo(buffer) IN
        /\ r.ok
        /\ r.buf.lines = last.pre.lines
        /\ r.buf.undo_stack = last.pre.undo_stack
        /\ r.buf.redo_stack = last.pre.redo_stack

\* undo() has just reverted a line deletion, with an older undone action
\* already waiting on the redo stack
C4_Witness ==
    /\ last.op = "undo"
    /\ last.ok
    /\ Buffer_can_undo(last.pre)
    /\ Len(buffer.redo_stack) = 2
    /\ buffer.lines # last.pre.lines
    /\ Buffer_redo(buffer).buf.lines = last.pre.lines

MutatingOps == {"insert_char", "delete_char", "insert_line", "delete_line"}

ActionTypeOf(op) ==
    CASE op = "insert_char" -> "Insert"
      [] op = "delete_char" -> "Delete"
      [] op = "insert_line" -> "InsertLine"
      [] op = "delete_line" -> "DeleteLine"

\* the last call was an edit that succeeded and changed the text
Edited ==
    /\ last.op \in MutatingOps
    /\ last.ok
    /\ last.op = "delete_char" => last.ret # <<>>

\* C5: right after a successful mutating edit can_redo() is false and the
\* undo stack is the one before the edit with the edit's action on top.
C5_LinearHistory ==
    Edited =>
        /\ ~Buffer_can_redo(buffer)
        /\ Buffer_can_undo(buffer)
        /\ Pop(buffer.undo_stack) = last.pre.undo_stack
        /\ Top(buffer.undo_stack).action_type = ActionTypeOf(last.op)
        /\ last.op = "delete_char" => Top(buffer.undo_stack).content = last.ret
        /\ last.op = "delete_line" => <<Top(buffer.undo_stack).content>> = last.ret

\* an edit made while the redo stack held an undone action
C5_Witness ==
    /\ Edited
    /\ Buffer_can_redo(last.pre)
    /\ ~Buffer_can_redo(buffer)

\* C18: undo() on an empty undo stack fails with EmptyUndoStack and redo() on
\* an empty redo stack fails with EmptyRedoStack, and either failure leaves
\* the lines, the modified flag and both stacks as they were.
C18_EmptyStackFails ==
    /\ (last.op = "undo" /\ Len(last.pre.undo_stack) = 0)
           => (~last.ok /\ last.err = "EmptyUndoStack" /\ buffer = last.pre)
    /\ (last.op = "redo" /\ Len(last.pre.redo_stack) = 0)
           => (~last.ok /\ last.err = "EmptyRedoStack" /\ buffer = last.pre)

\* undo() has failed on a buffer that still has an action to redo
C18_Witness ==
    /\ last.op = "undo"
    /\ ~last.ok
    /\ Len(last.pre.undo_stack) = 0
    /\ Len(buffer.redo_stack) > 0

\* C20: after every successful redo() the buffer is modified, also when the
\* redo follows mark_saved and when it brings back the text of the last save.
C20_RedoSetsModified ==
    (last.op = "redo" /\ last.ok) => Buffer_is_modified(buffer)

\* an edit, a save, an undo and a redo: the redo was made on an unmodified
\* buffer and has brought back the undo stack the buffer was saved with
C20_Witness ==
    /\ last.op = "redo"
    /\ last.ok
    /\ ~last.pre.modified
    /\ save_point > 0
    /\ Len(buffer.undo_stack) = save_point
    /\ Buffer_is_modified(buffer)

\* C31: in editor::Buffer, right after a successful mutating operation
\* (insert_char, delete_char that removed a character, insert_line,
\* delete_line, the one on a one-line buffer included) one undo() succeeds
\* and gives back the line sequence the buffer had before the operation.
C31_EditThenUndoRestores ==
    Edited =>
        /\ Buffer_undo(buffer).ok
        /\ Buffer_undo(buffer).buf.lines = last.pre.lines

\* the recorded actions in the order they were made: the undo stack from the
\* bottom, then the redo stack from the top
RECURSIVE ReverseSeq(_)
ReverseSeq(s) == IF s = << >> THEN << >> ELSE Append(ReverseSeq(Tail(s)), Head(s))

Timeline(b) == b.undo_stack \o ReverseSeq(b.redo_stack)

\* C36: in editor::Buffer, a successful undo() pops the top of the undo stack
\* and pushes that action onto the redo stack, a successful redo() does the
\* reverse, and a failed one leaves both stacks alone: the recorded actions
\* and their order are the same before and after every undo() and redo().
C36_UndoRedoMoveActions ==
    /\ (last.op = "undo" /\ last.ok)
           => /\ last.pre.undo_stack # << >>
              /\ buffer.undo_stack = Pop(last.pre.undo_stack)
              /\ buffer.redo_stack = Append(last.pre.redo_stack, Top(last.pre.undo_stack))
    /\ (last.op = "redo" /\ last.ok)
           => /\ last.pre.redo_stack # << >>
              /\ buffer.redo_stack = Pop(last.pre.redo_stack)
              /\ buffer.undo_stack = Append(last.pre.undo_stack, Top(last.pre.redo_stack))
    /\ (last.op \in {"undo", "redo"} /\ ~last.ok)
           => /\ buffer.undo_stack = last.pre.undo_stack
              /\ buffer.redo_stack = last.pre.redo_stack
    /\ last.op \in {"undo", "redo"} => Timeline(buffer) = Timeline(last.pre)

\* a redo() that succeeded with an action left on each stack
C36_Witness ==
    /\ last.op = "redo"
    /\ last.ok
    /\ Len(buffer.undo_stack) = 1
    /\ Len(buffer.redo_stack) = 1
    /\ Timeline(buffer)[1] # Timeline(buffer)[2]

-----------------------------------------------------------------------------
(* Properties of the two control loops.                                   *)

\* the buffer, the quit flag and the file path of the front end that runs
AppBuffer == IF run.app = "Editor" THEN editor.buffer ELSE service.buffer
AppModified ==
    IF run.app = "Editor" THEN Buffer_is_modified(editor.buffer)
    ELSE TextBuffer_is_modified(service.buffer)
AppQuit == IF run.app = "Editor" THEN editor.should_quit ELSE service.should_quit
AppPath == IF run.app = "Editor" THEN editor.file_path ELSE service.file_path

\* the handled input was the command Quit or the command line ':q'
QuitAsked(l) ==
    \/ l.cmd.name = "Quit"
    \/ l.cmd.name \in {"CommandExecute", "ExecuteCommand"} /\ l.line = <<"q">>

\* the handled input was the command ForceQuit or the command line ':q!'
ForceQuitAsked(l) ==
    \/ l.cmd.name = "ForceQuit"
    \/ l.cmd.name \in {"CommandExecute", "ExecuteCommand"} /\ l.line = <<"q", "!">>

\* the handled input was Save, SaveAndQuit, ':w' or ':wq'
SaveAsked(l) ==
    \/ l.cmd.name \in {"Save", "SaveAndQuit"}
    \/ l.cmd.name \in {"CommandExecute", "ExecuteCommand"}
           /\ l.line \in {<<"w">>, <<"w", "q">>}

\* C6: in either front end, a step that handles Quit or ':q' while the buffer
\* is modified leaves the quit flag false and the buffer as it was, and a step
\* that handles ForceQuit or ':q!' sets the quit flag whether or not the
\* buffer is modified.
C6_QuitRefusedWhenModified ==
    [][ /\ (QuitAsked(last') /\ AppModified) => (~AppQuit' /\ AppBuffer' = AppBuffer)
        /\ ForceQuitAsked(last') => AppQuit' ]_vars

\* ':q' has just been refused on a modified buffer: the loop still runs
C6_Witness ==
    /\ QuitAsked(last)
    /\ last.line = <<"q">>
    /\ AppModified
    /\ ~AppQuit
    /\ run.status = "running"

\* the buffer operation of the command about to be handled fails with an
\* addressing or a history error
OperationFails(cmd) ==
    LET res == IF run.app = "Editor"
               THEN VimCommand_execute(cmd, editor.buffer, editor.cursor)
               ELSE VimBindings_execute_command(cmd, service.cursor, service.buffer)
    IN  ~res.ok /\ res.err # "panic"

\* C7: in either front end, a step whose buffer operation fails with an
\* addressing or a history error returns success from the key handler, leaves
\* the quit flag false and the buffer unchanged, and the loop goes on to read
\* the next key.
C7_FailedOperationKeepsLoop ==
    [][ OperationFails(last'.cmd) =>
            /\ last'.ok
            /\ ~AppQuit'
            /\ AppBuffer' = AppBuffer
            /\ run'.status = "running" ]_vars

\* C8: in either front end, a step that handles Save, SaveAndQuit, ':w' or
\* ':wq' with a file path set and whose write_file fails leaves the quit flag
\* false, returns success from the key handler so that the run loop goes on,
\* and keeps the text and the modified flag of the buffer.
C8_FailedWriteKeepsEditing ==
    [][ (SaveAsked(last') /\ AppPath # << >> /\ ~last'.write_ok) =>
            /\ last'.ok
            /\ run'.status = "running"
            /\ ~AppQuit'
            /\ AppBuffer'.lines = AppBuffer.lines
            /\ AppModified' = AppModified ]_vars

\* the bound on the cursor under `mode`: on a line of the buffer, at most at
\* the end of the line in Insert mode and on a character of the line (or at
\* column 0 of an empty line) in the other modes
CursorWithin(lines, c, mode) ==
    /\ c.row < Len(lines)
    /\ c.col <= IF mode = "Insert" THEN Len(lines[c.row + 1])
                ELSE SatSub(Len(lines[c.row + 1]), 1)

\* C13: in EditorService, after every execute_command that returns (reached
\* through handle_input or called with a file command) the cursor is on a
\* line of the buffer, at most at the end of the line in Insert mode and at
\* most on its last character in every other mode.
C13_ServiceCursorWithin ==
    (run.app = "EditorService" /\ last.op \in {"handle_input", "execute_command"}
        /\ last.err # "panic")
        => CursorWithin(service.buffer.lines, service.cursor, service.mode_manager.current_mode)

\* '$' in Normal mode on a line with text: MoveLineEnd puts the cursor one
\* past the last character and the adjustment brings it back onto it
C13_Witness ==
    /\ run.app = "EditorService"
    /\ last.op = "handle_input"
    /\ last.ok
    /\ last.cmd.name = "MoveLineEnd"
    /\ service.mode_manager.current_mode = "Normal"
    /\ Len(service.buffer.lines[service.cursor.row + 1]) > 0
    /\ service.cursor.col = Len(service.buffer.lines[service.cursor.row + 1]) - 1

\* C14: in the run loop of main.rs, after every key that handle_input
\* processes without error the cursor is on a line of the buffer, at most at
\* the end of the line in Insert mode and at most on its last character in
\* Normal, Visual and Command mode.
C14_EditorCursorWithin ==
    (run.app = "Editor" /\ last.op = "handle_input" /\ last.ok)
        => CursorWithin(editor.buffer.lines, editor.cursor, editor.mode_manager.current.tag)

\* the handled input was the command SaveAndQuit or the command line ':wq'
SaveAndQuitAsked(l) ==
    \/ l.cmd.name = "SaveAndQuit"
    \/ l.cmd.name \in {"CommandExecute", "ExecuteCommand"} /\ l.line = <<"w", "q">>

\* buffer.to_string() of the front end that runs
AppText ==
    IF run.app = "Editor" THEN Buffer_to_string(editor.buffer)
    ELSE TextBuffer_to_string(service.buffer)

\* C26: in either front end, when a step that handles SaveAndQuit or ':wq'
\* ends with the quit flag set, the buffer has a file path, write_file
\* succeeded and the file holds the text of the buffer; with no file path or
\* a failed write the quit flag is not set.
C26_SaveAndQuitWrites ==
    [][ (SaveAndQuitAsked(last') /\ AppQuit')
            => /\ AppPath # << >>
               /\ last'.write_ok
               /\ disk' = <<AppText>> ]_vars

\* the no-op command of vim::command and the one of VimBindings
NoopCommands == {Cmd("Noop"), Cmd("Unknown")}

\* the mode of the front end that runs, and its lookup of a key: the
\* command, and whether the lookup left the mode alone
AppMode ==
    IF run.app = "Editor" THEN editor.mode_manager.current.tag
    ELSE service.mode_manager.current_mode
AppLookup(key) ==
    IF run.app = "Editor"
    THEN [cmd |-> KeyMapper_map_key(key, editor.mode_manager.current), same_mode |-> TRUE]
    ELSE [cmd |-> VimBindings_parse_key(service.mode_manager, key).cmd,
          same_mode |-> VimBindings_parse_key(service.mode_manager, key).mm
                            = service.mode_manager]

\* what a no-op has to leave alone: the buffer (lines, modified flag, undo
\* and redo stacks), the cursor, the mode and the quit flag
AppEditing ==
    IF run.app = "Editor"
    THEN <<editor.buffer, editor.cursor, editor.mode_manager, editor.should_quit>>
    ELSE <<service.buffer, service.cursor, service.mode_manager, service.should_quit>>

\* C29: in either front end and in every mode, a key without a binding is
\* looked up as the no-op command (Noop for KeyMapper, Unknown for
\* VimBindings) without a mode change, and a step that handles a no-op
\* command returns success and leaves the buffer, the cursor, the mode, the
\* quit flag and the file as they were.
C29_UnboundKeyIsNoop ==
    [][/\ \A key \in UnboundKeys(AppMode) :
              AppLookup(key).cmd \in NoopCommands /\ AppLookup(key).same_mode
       /\ (last'.op = "handle_input" /\ last'.cmd \in NoopCommands)
             => /\ last'.ok
                /\ AppEditing' = AppEditing
                /\ disk' = disk
                /\ run'.status = "running"]_vars

\* a key without a binding has just been handled in Insert mode on a
\* modified buffer with an undo history
C29_Witness ==
    /\ last.op = "handle_input"
    /\ last.cmd \in NoopCommands
    /\ last.ok
    /\ AppMode = "Insert"
    /\ AppModified
    /\ AppBuffer.undo_stack # << >>
    /\ ~AppQuit

\* the text last written to the file, or the initial content when nothing
\* was written: disk changes only when write_file succeeds, and a front end
\* started without a file starts with the empty text
SavedText == IF disk = << >> THEN << >> ELSE disk[1]

\* C35: in either front end, Quit or ':q' sets the quit flag only while the
\* text of the buffer is the text last written to the file, or the initial
\* content when nothing was written.
C35_QuitOnlyWhenSaved ==
    (QuitAsked(last) /\ AppQuit) => AppText = SavedText

-----------------------------------------------------------------------------
(* Properties of the text operations of editor::Buffer and               *)
(* domain::TextBuffer.  `last'` names the call a step makes; `buffer` is  *)
(* the buffer before it and `buffer'` the buffer after it.                *)

\* OutOfBounds of editor::Buffer and the two messages of domain::TextBuffer
OutOfBoundsErrors == {"OutOfBounds", "Row out of bounds", "Column out of bounds"}

\* t is s with the bytes of ch put in at byte offset i
InsertedAt(s, t, i, ch) ==
    /\ Len(t) = Len(s) + Len(Utf8(ch))
    /\ SubSeq(t, 1, i) = SubSeq(s, 1, i)
    /\ SubSeq(t, i + 1, i + Len(Utf8(ch))) = Utf8(ch)
    /\ SubSeq(t, i + Len(Utf8(ch)) + 1, Len(t)) = SubSeq(s, i + 1, Len(s))

\* the lines are those of `before` but for line row, which has ch put in at col
CharInserted(before, after, row, col, ch) ==
    /\ Len(after) = Len(before)
    /\ \A i \in 1 .. Len(before) :
           IF i = row + 1 THEN InsertedAt(before[i], after[i], col, ch)
           ELSE after[i] = before[i]

\* the undo stack has grown by exactly one action, of type t
PushedOne(before, after, t) ==
    /\ Len(after.undo_stack) = Len(before.undo_stack) + 1
    /\ SubSeq(after.undo_stack, 1, Len(before.undo_stack)) = before.undo_stack
    /\ Top(after.undo_stack).action_type = t

\* C15: insert_char fails with an out-of-bounds error when row >= line_count
\* or col > line_length(row) and then leaves the lines, the modified flag and
\* both history stacks as they were; in every other case it succeeds, puts
\* the character in at col, sets modified and pushes exactly one Insert action.
C15_InsertCharContract ==
    [][last'.op = "insert_char" =>
         IF last'.row >= Len(buffer.lines) \/ last'.col > Len(buffer.lines[last'.row + 1])
         THEN /\ ~last'.ok
              /\ last'.err \in OutOfBoundsErrors
              /\ buffer' = buffer
         ELSE /\ last'.ok
              /\ CharInserted(buffer.lines, buffer'.lines, last'.row, last'.col, last'.ch)
              /\ buffer'.modified
              /\ PushedOne(buffer, buffer', "Insert")]_vars

\* C16: delete_char on a line of the buffer at or beyond its end returns
\* "nothing deleted" without error and leaves the lines, the modified flag,
\* the undo stack and the redo stack as they were; with row >= line_count it
\* fails with an out-of-bounds error and changes nothing.
C16_DeleteCharPastEnd ==
    [][last'.op = "delete_char" =>
         /\ (last'.row < Len(buffer.lines) /\ last'.col >= Len(buffer.lines[last'.row + 1]))
                => (last'.ok /\ last'.ret = << >> /\ buffer' = buffer)
         /\ last'.row >= Len(buffer.lines)
                => (~last'.ok /\ last'.err \in OutOfBoundsErrors /\ buffer' = buffer)]_vars

\* delete_char past the end of a line of a modified buffer that has actions to
\* undo and to redo
C16_Witness ==
    /\ last.op = "delete_char"
    /\ last.ok
    /\ last.ret = << >>
    /\ last.row < Len(buffer.lines)
    /\ last.col >= Len(buffer.lines[last.row + 1])
    /\ buffer.modified
    /\ Len(buffer.undo_stack) > 0
    /\ Len(buffer.redo_stack) > 0

\* the lines are those of `before` without line row, in the same order
LineRemoved(before, after, row) ==
    /\ Len(after) = Len(before) - 1
    /\ \A i \in 1 .. Len(after) : after[i] = IF i <= row THEN before[i] ELSE before[i + 1]

\* C17: delete_line(row) with row < line_count returns the text of line row;
\* on a buffer of more than one line the lines after it are the old ones
\* without that line, in the same order; on a buffer of one line the line
\* count stays 1 and the line becomes empty; with row >= line_count it fails
\* and changes nothing.
C17_DeleteLineContract ==
    [][last'.op = "delete_line" =>
         IF last'.row < Len(buffer.lines)
         THEN /\ last'.ok
              /\ last'.ret = <<buffer.lines[last'.row + 1]>>
              /\ IF Len(buffer.lines) > 1
                 THEN LineRemoved(buffer.lines, buffer'.lines, last'.row)
                 ELSE buffer'.lines = << << >> >>
         ELSE ~last'.ok /\ buffer' = buffer]_vars

\* the first of two lines has been deleted and the second, which holds text,
\* is now the only line
C17_Witness ==
    /\ last.op = "delete_line"
    /\ last.ok
    /\ last.row = 0
    /\ last.ret # << << >> >>
    /\ Len(buffer.lines) = 1
    /\ buffer.lines[1] # << >>
    /\ buffer.lines[1] # last.ret[1]

\* C19: mark_saved() sets modified to false and leaves the lines, the undo
\* stack and the redo stack as they were, so that undo() and redo() answer
\* after the save as they would have answered before it.
C19_MarkSavedKeepsHistory ==
    [][last'.op = "mark_saved" =>
         /\ ~buffer'.modified
         /\ buffer' = [buffer EXCEPT !.modified = FALSE]
         /\ Text_undo(buffer').ok = Text_undo(buffer).ok
         /\ Text_undo(buffer').buf.lines = Text_undo(buffer).buf.lines
         /\ Text_redo(buffer').ok = Text_redo(buffer).ok
         /\ Text_redo(buffer').buf.lines = Text_redo(buffer).buf.lines]_vars

\* a save of a buffer that has actions to undo and actions to redo
C19_Witness ==
    /\ last.op = "mark_saved"
    /\ ~buffer.modified
    /\ Len(buffer.undo_stack) > 0
    /\ Len(buffer.redo_stack) > 0

\* C32: a domain::TextBuffer made by new() or from_content() has at least
\* one line after any sequence of insert_char, delete_char, insert_line,
\* delete_line, undo, redo and mark_saved.
C32_TextBufferHasALine ==
    run.app = "TextBuffer" => TextBuffer_line_count(buffer) >= 1

-----------------------------------------------------------------------------
(* Properties of the movement commands.                                   *)

\* the cursor is on a line of the buffer and not beyond the end of that line
CursorOnLine(b, c) == c.row < Len(b.lines) /\ c.col <= Len(b.lines[c.row + 1])

RowDistance(c, d) == IF c.row >= d.row THEN c.row - d.row ELSE d.row - c.row

\* C12: a row-changing movement (MoveUp, MoveDown, MoveBufferStart,
\* MoveBufferEnd) executed from a cursor on a line of the buffer and within
\* that line ends on a line of the buffer and within the line at the new row,
\* and MoveUp and MoveDown change the row by at most one.
C12_RowMoveStaysOnLine ==
    (/\ last.op = "execute"
     /\ last.cmd \in RowMoves
     /\ CursorOnLine(last.buffer, last.cursor))
        => /\ last.ok
           /\ editor.buffer = last.buffer
           /\ CursorOnLine(editor.buffer, editor.cursor)
           /\ last.cmd \in {Cmd("MoveUp"), Cmd("MoveDown")}
                  => RowDistance(editor.cursor, last.cursor) <= 1

\* MoveDown from the end of a long line onto a shorter one: the column is
\* brought back to the length of the new line
C12_Witness ==
    /\ last.op = "execute"
    /\ last.cmd = Cmd("MoveDown")
    /\ CursorOnLine(last.buffer, last.cursor)
    /\ editor.cursor.row = last.cursor.row + 1
    /\ editor.cursor.col < last.cursor.col

-----------------------------------------------------------------------------
(* Properties of the cursor moves.  last.pre is the cursor a move was     *)
(* called on and last.arg the line length or line count handed to it.     *)

\* the move went one step: Ok, and the cursor is at (row, col)
MovedTo(row, col) == last.ok /\ CuCursor = Position(row, col)

\* the move stopped at its boundary: the cursor is where it was, and a
\* Position returned OutOfBounds where a CursorPosition returned nothing
StoppedAtBoundary ==
    /\ CuCursor = last.pre
    /\ last.ok <=> run.app = "CursorPosition"

\* C30: move_left, move_right(line_length), move_up and move_down(line_count)
\* of both cursor types change one coordinate by one and keep the other when
\* the cursor is short of the boundary (column 0, column line_length, row 0,
\* row line_count - 1); otherwise they leave the cursor as it was, the
\* Position with an OutOfBounds error and the CursorPosition silently.  A
\* cursor with col <= line_length keeps it after move_right(line_length), one
\* with row <= line_count - 1 keeps it after move_down(line_count), and
\* move_left and move_up never increase a coordinate.
C30_CursorMovesByOne ==
    /\ last.op = "move_left" =>
          /\ IF last.pre.col > 0 THEN MovedTo(last.pre.row, last.pre.col - 1)
             ELSE StoppedAtBoundary
          /\ CuCursor.col <= last.pre.col
    /\ last.op = "move_right" =>
          /\ IF last.pre.col < last.arg THEN MovedTo(last.pre.row, last.pre.col + 1)
             ELSE StoppedAtBoundary
          /\ last.pre.col <= last.arg => CuCursor.col <= last.arg
    /\ last.op = "move_up" =>
          /\ IF last.pre.row > 0 THEN MovedTo(last.pre.row - 1, last.pre.col)
             ELSE StoppedAtBoundary
          /\ CuCursor.row <= last.pre.row
    /\ last.op = "move_down" =>
          /\ IF last.pre.row < last.arg - 1 THEN MovedTo(last.pre.row + 1, last.pre.col)
             ELSE StoppedAtBoundary
          /\ last.pre.row <= last.arg - 1 => CuCursor.row <= last.arg - 1

\* move_down(line_count) on the last row: the Position returns OutOfBounds
\* and stays
C30_Witness ==
    /\ run.app = "Position"
    /\ last.op = "move_down"
    /\ last.arg = MaxLines
    /\ last.pre = Position(MaxLines - 1, 1)
    /\ ~last.ok
    /\ CuCursor = last.pre

-----------------------------------------------------------------------------
(* Properties of the edit commands.  `last'` names the command a step     *)
(* executes; CmBuffer and CmCursor are the buffer and the cursor before   *)
(* it, CmBuffer' and CmCursor' those after it.                            *)

\* undo() of the buffer the front end that runs holds
Cm_undo(b) == IF run.app = "VimCommand" THEN Buffer_undo(b) ELSE TextBuffer_undo(b)

\* C21: InsertChar(c), c not a newline, executed with the cursor on a line of
\* the buffer and within it, succeeds, puts c in at the cursor column, leaves
\* every other line as it was and moves the cursor one column to the right;
\* an Undo after it brings the lines back.
C21_InsertCharCommand ==
    [][(/\ last'.op = "execute"
        /\ last'.cmd.name = "InsertChar"
        /\ last'.cmd.arg # NL
        /\ CursorOnLine(CmBuffer, CmCursor))
         => /\ last'.ok
            /\ CharInserted(CmBuffer.lines, CmBuffer'.lines, CmCursor.row, CmCursor.col,
                            last'.cmd.arg)
            /\ CmCursor'.row = CmCursor.row
            /\ CmCursor'.col = CmCursor.col + 1
            /\ Cm_undo(CmBuffer').ok
            /\ Cm_undo(CmBuffer').buf.lines = CmBuffer.lines]_vars

\* the lines are those of `before` with one empty line put in at index row
EmptyLineInserted(before, after, row) ==
    /\ Len(after) = Len(before) + 1
    /\ after[row + 1] = << >>
    /\ \A i \in 1 .. Len(before) : before[i] = IF i <= row THEN after[i] ELSE after[i + 1]

\* C22: a newline insertion (InsertChar('\n') in VimBindings, NewLine in
\* vim::command) with the cursor on row r of the buffer succeeds, puts one
\* empty line in at index r + 1, leaves the text of every line there was (the
\* current line is not split), and moves the cursor to (r + 1, 0).
C22_NewLineCommand ==
    [][(/\ last'.op = "execute"
        /\ last'.cmd \in {Cmd("NewLine"), CmdArg("InsertChar", NL)}
        /\ CmCursor.row < Len(CmBuffer.lines))
         => /\ last'.ok
            /\ EmptyLineInserted(CmBuffer.lines, CmBuffer'.lines, CmCursor.row + 1)
            /\ CmCursor'.row = CmCursor.row + 1
            /\ CmCursor'.col = 0]_vars

\* a newline on a single line that holds text: the new line is empty, the
\* first keeps its text and the cursor is at the start of the new line
C22_Witness ==
    /\ last.op = "execute"
    /\ last.cmd \in {Cmd("NewLine"), CmdArg("InsertChar", NL)}
    /\ last.ok
    /\ CmCursor = CursorPosition(1, 0)
    /\ Len(CmBuffer.lines) = 2
    /\ CmBuffer.lines[1] # << >>
    /\ CmBuffer.lines[2] = << >>

\* C23: Backspace with the cursor at (0, 0) succeeds and leaves the lines, the
\* modified flag, the undo stack, the redo stack and the cursor as they were.
C23_BackspaceAtOrigin ==
    [][(/\ last'.op = "execute"
        /\ last'.cmd = Cmd("Backspace")
        /\ CmCursor.row = 0
        /\ CmCursor.col = 0)
         => /\ last'.ok
            /\ CmBuffer' = CmBuffer
            /\ CmCursor' = CmCursor]_vars

\* Backspace at (0, 0) of a modified buffer with text and with actions to
\* undo and to redo
C23_Witness ==
    /\ last.op = "execute"
    /\ last.cmd = Cmd("Backspace")
    /\ last.ok
    /\ CmCursor = CursorPosition(0, 0)
    /\ CmBuffer.lines[1] # << >>
    /\ CmBuffer.modified
    /\ Len(CmBuffer.undo_stack) > 0
    /\ Len(CmBuffer.redo_stack) > 0

\* the lines are those of `before` with line row appended to line row - 1
LinesJoined(before, after, row) ==
    /\ Len(after) = Len(before) - 1
    /\ \A i \in 1 .. Len(after) :
           after[i] = IF i < row THEN before[i]
                      ELSE IF i = row THEN before[row] \o before[row + 1]
                      ELSE before[i + 1]

\* the line is `before` without the character that starts at byte offset i
CharRemoved(before, after, i) ==
    /\ Len(after) < Len(before)
    /\ SubSeq(after, 1, i) = SubSeq(before, 1, i)
    /\ SubSeq(after, i + 1, Len(after))
           = SubSeq(before, i + 1 + (Len(before) - Len(after)), Len(before))
    /\ Len(StrChars(after)) = Len(StrChars(before)) - 1

\* C24: Backspace with the cursor at (r, 0), r > 0, on a line of the buffer
\* joins line r to line r - 1: one line less, line r - 1 is its old text
\* followed by the old line r, the other lines keep text and order, the
\* cursor is at (r - 1, length of the old line r - 1) and the undo stack has
\* grown by 1 + length(old line r); with col > 0 Backspace removes exactly
\* the character at col - 1 and moves the cursor to col - 1.
C24_BackspaceJoinsLines ==
    [][(/\ last'.op = "execute"
        /\ last'.cmd = Cmd("Backspace")
        /\ CursorOnLine(CmBuffer, CmCursor))
         => /\ (CmCursor.col = 0 /\ CmCursor.row > 0)
                  => /\ last'.ok
                     /\ LinesJoined(CmBuffer.lines, CmBuffer'.lines, CmCursor.row)
                     /\ CmCursor'.row = CmCursor.row - 1
                     /\ CmCursor'.col = Len(CmBuffer.lines[CmCursor.row])
                     /\ Len(CmBuffer'.undo_stack)
                            = Len(CmBuffer.undo_stack) + 1
                                + Len(StrChars(CmBuffer.lines[CmCursor.row + 1]))
            /\ CmCursor.col > 0
                  => /\ last'.ok
                     /\ Len(CmBuffer'.lines) = Len(CmBuffer.lines)
                     /\ \A i \in 1 .. Len(CmBuffer.lines) :
                            IF i = CmCursor.row + 1
                            THEN CharRemoved(CmBuffer.lines[i], CmBuffer'.lines[i],
                                             CmCursor.col - 1)
                            ELSE CmBuffer'.lines[i] = CmBuffer.lines[i]
                     /\ CmCursor'.row = CmCursor.row
                     /\ CmCursor'.col = CmCursor.col - 1]_vars

\* the lines after n Undo commands on a TextBuffer; an Undo that fails
\* leaves them as they are
RECURSIVE LinesAfterUndos(_, _)
LinesAfterUndos(b, n) ==
    IF n = 0 THEN b.lines
    ELSE IF ~TextBuffer_undo(b).ok THEN b.lines
    ELSE LinesAfterUndos(TextBuffer_undo(b).buf, n - 1)

\* C33: on a domain::TextBuffer driven by VimBindings, a successful
\* DeleteLine (delete_line at the cursor row) followed by one Undo gives back
\* the lines before it, and a Backspace at column 0 of a row r > 0 whose line
\* has k characters, followed by k + 1 Undo commands, gives back the two
\* lines and every other line as they were.
C33_DeleteLineUndone ==
    [][/\ (run.app = "VimBindings" /\ last'.op = "execute" /\ last'.cmd = Cmd("DeleteLine")
                /\ last'.ok)
             => LinesAfterUndos(CmBuffer', 1) = CmBuffer.lines
       /\ (run.app = "VimBindings" /\ last'.op = "execute" /\ last'.cmd = Cmd("Backspace")
                /\ last'.ok /\ CursorOnLine(CmBuffer, CmCursor)
                /\ CmCursor.col = 0 /\ CmCursor.row > 0)
             => LinesAfterUndos(CmBuffer',
                                1 + Len(StrChars(CmBuffer.lines[CmCursor.row + 1])))
                    = CmBuffer.lines]_vars

-----------------------------------------------------------------------------
(* Properties of the command line of the EditorService.  `last'` names    *)
(* the key a step handled; unprimed names are the state before the step.  *)

CommandLineActive == service.command_line.active

\* the command line begins with ':' and its cursor is behind its last
\* character
CommandLineShape(cl) ==
    /\ Len(cl.content) >= 1
    /\ cl.content[1] = ":"
    /\ cl.cursor_pos = Len(StrChars(cl.content))

\* C25: on the command line of the EditorService every typed character
\* and every Backspace is handled; while the line is active its content
\* begins with ':' (Backspace never removes it) and its cursor is at its
\* end; the text Enter executes is what was typed since ':' net of the
\* Backspaces, without the ':'; and w, q, Enter writes the buffer and quits.
C25_CommandLineTyped ==
    [][/\ CommandLineActive' => CommandLineShape(service'.command_line)
       /\ (CommandLineActive /\ last'.cmd.name \in {"CommandChar", "CommandBackspace"})
             => last'.ok
       /\ (CommandLineActive /\ last'.cmd.name = "CommandExecute")
             => last'.line = Utf8Text(last.typed)
       /\ (CommandLineActive /\ last'.cmd.name = "CommandExecute"
                /\ last.typed = <<"w", "q">>)
             => IF service.file_path # << >> /\ ~last'.write_ok
                THEN ~last'.ok /\ ~service'.should_quit /\ disk' = disk
                ELSE /\ last'.ok
                     /\ service'.should_quit
                     /\ service.file_path # << >>
                            => disk' = <<TextBuffer_to_string(service.buffer)>>]_vars

\* the command lines execute_vim_command knows
KnownCommands == { <<"w">>, <<"q">>, <<"w", "q">>, <<"q", "!">> }

\* C27: when Enter executes a command line whose text is none of "w", "q",
\* "wq", "q!", the key handler returns success, the status message is the
\* non-empty 'Unknown command' message, the quit flag stays false so that
\* the loop goes on, and the buffer (lines, modified flag, undo and redo
\* stacks), the cursor and the file are as before.
C27_UnknownCommandOnlyMessage ==
    [][(CommandLineActive /\ last'.cmd.name = "CommandExecute"
            /\ last'.line \notin KnownCommands)
         => /\ last'.ok
            /\ service'.status_message = Msg("Unknown command: ", last'.line)
            /\ service'.status_message.text # ""
            /\ ~service'.should_quit
            /\ run'.status = "running"
            /\ service'.buffer = service.buffer
            /\ service'.cursor = service.cursor
            /\ disk' = disk]_vars

\* ':ww' has just been executed on a modified buffer with an undo history
C27_Witness ==
    /\ run.app = "EditorService"
    /\ last.cmd.name = "CommandExecute"
    /\ last.line = <<"w", "w">>
    /\ last.ok
    /\ service.status_message = Msg("Unknown command: ", <<"w", "w">>)
    /\ service.buffer.modified
    /\ service.buffer.undo_stack # << >>
    /\ ~service.should_quit
    /\ run.status = "running"

\* the commands that edit or execute the command line
CommandLineCommands == {"CommandChar", "CommandBackspace", "CommandExecute"}

\* C28: update_command_input on a vim::ModeManager whose current mode is not
\* Command returns an error and leaves the manager as it was; and the
\* EditorService, handed CommandChar, CommandBackspace or CommandExecute
\* while its command line is not active, returns success and leaves the
\* command line, the buffer, the quit flag and the file as they were.
C28_CommandLineEditsRejected ==
    [][/\ (run.app = "ModeManager" /\ last'.op = "update_command_input"
                /\ vmode.current.tag # "Command")
             => ~last'.ret /\ vmode' = vmode
       /\ (run.app = "EditorService" /\ last'.cmd.name \in CommandLineCommands
                /\ ~CommandLineActive)
             => /\ last'.ok
                /\ service'.command_line = service.command_line
                /\ service'.buffer = service.buffer
                /\ service'.should_quit = service.should_quit
                /\ disk' = disk]_vars

\* after an executed command line the VimBindings are still in Command mode
\* and the command line is closed; Enter has just been handled there, on a
\* modified buffer
C28_Witness ==
    /\ run.app = "EditorService"
    /\ last.cmd.name = "CommandExecute"
    /\ last.line = << >>
    /\ last.ok
    /\ service.mode_manager.current_mode = "Command"
    /\ ~service.command_line.active
    /\ service.status_message.text = "Unknown command: "
    /\ service.status_message.arg = <<"w", "w">>
    /\ service.buffer.modified
    /\ ~service.should_quit

\* C34: in the EditorService, after every key that handle_input processes
\* the command line is active exactly when the VimBindings are in Command
\* mode; after Enter has executed a command line the mode is Normal.
C34_CommandLineIffCommandMode ==
    (run.app = "EditorService" /\ last.op = "handle_input" /\ last.ok)
        => /\ service.command_line.active
                 <=> service.mode_manager.current_mode = "Command"
           /\ last.cmd.name = "CommandExecute"
                 => service.mode_manager.current_mode = "Normal"

\* C37: an entry into Command mode starts with an empty command: the step
\* that handles ':' in Normal mode (EnterCommandMode) leaves the EditorService
\* in Command mode with an active command line whose command is empty, and
\* enter_command() on a vim::ModeManager in Normal mode gives Mode::Command
\* with an empty input, whatever the state before; a ':' typed on an active
\* command line is appended to the command, and enter_command() outside
\* Normal mode changes nothing.
C37_CommandModeStartsEmpty ==
    [][ /\ (run.app = "EditorService" /\ last'.op = "handle_input" /\ last'.ok
                /\ last'.cmd.name = "EnterCommandMode")
            => /\ service'.mode_manager.current_mode = "Command"
               /\ service'.command_line.active
               /\ CommandLine_get_command(service'.command_line) = << >>
        /\ (run.app = "EditorService" /\ last'.op = "handle_input" /\ last'.ok
                /\ last'.cmd = CmdArg("CommandChar", ":") /\ service.command_line.active)
            => CommandLine_get_command(service'.command_line)
                   = Append(CommandLine_get_command(service.command_line), ":")
        /\ (run.app = "ModeManager" /\ last'.op = "enter_command")
            => IF vmode.current.tag = "Normal" THEN vmode'.current = Mode_Command(<< >>)
               ELSE vmode' = vmode ]_vars

\* enter_command() in Normal mode after a Command mode that held an input
C37_Witness ==
    /\ run.app = "ModeManager"
    /\ last.op = "enter_command"
    /\ last.pre.current = Mode_Normal
    /\ last.pre.previous = <<Mode_Command(<<"q">>)>>
    /\ vmode.current = Mode_Command(<< >>)

-----------------------------------------------------------------------------
(* Properties of the key lookups.                                         *)

\* C11: a key lookup leaves the current mode as it was, for
\* VimBindings::parse_key and for KeyMapper::map_key alike: the mode changes
\* only when the command the lookup returned is executed.
C11_LookupKeepsMode ==
    /\ last.op = "parse_key" => dmode.current_mode = last.pre.current_mode
    /\ last.op = "map_key" => vmode.current = last.pre.current

-----------------------------------------------------------------------------
(* Properties of the mode managers.                                       *)

\* the transition table of the specification: <<from, trigger, to>>
C9_Table ==
    {<<"Normal", <<"Key", k>>, "Insert">> : k \in {"i", "a", "o", "O"}}
        \cup { <<"Normal", <<"Key", "v">>, "Visual">>,
               <<"Normal", <<"Key", ":">>, "Command">>,
               <<"Insert", <<"Escape">>, "Normal">>,
               <<"Visual", <<"Escape">>, "Normal">>,
               <<"Command", <<"Escape">>, "Normal">> }

\* C9: each transition_with_key / transition_with_escape call on a
\* domain::ModeManager either follows a row of the table and returns true, or
\* returns false and leaves the current and the previous mode unchanged; it
\* returns true exactly when the table has a row for the mode and the trigger.
C9_TableOrNoop ==
    (last.op \in {"transition_with_key", "transition_with_escape"}) =>
        LET trigger == IF last.op = "transition_with_key"
                       THEN <<"Key", last.arg>> ELSE <<"Escape">>
            from == last.pre.current_mode
        IN  /\ \/ /\ last.ret = TRUE
                  /\ <<from, trigger, dmode.current_mode>> \in C9_Table
               \/ /\ last.ret = FALSE
                  /\ dmode.current_mode = last.pre.current_mode
                  /\ dmode.previous_mode = last.pre.previous_mode
            /\ last.ret = (\E row \in C9_Table : row[1] = from /\ row[2] = trigger)

\* 'v' has just been sent in Insert mode, entered from Normal, and was refused
C9_Witness ==
    /\ last.op = "transition_with_key"
    /\ last.arg = "v"
    /\ last.pre = [current_mode |-> "Insert", previous_mode |-> <<"Normal">>]
    /\ last.ret = FALSE
    /\ dmode.current_mode = "Insert"

C10_Ops == {"enter_insert", "enter_visual", "enter_command", "enter_normal", "transition_to"}

\* the pairs of the claim: the table of the specification and Visual -> Insert
C10_Pairs ==
    { <<"Normal", "Insert">>, <<"Normal", "Visual">>, <<"Normal", "Command">>,
      <<"Insert", "Normal">>, <<"Visual", "Normal">>, <<"Command", "Normal">>,
      <<"Visual", "Insert">> }

\* C10 as claimed: a call of enter_* / transition_to on a vim::ModeManager
\* changes the current mode only along the pairs of C10_Pairs, and a call for
\* any other pair leaves the current and the previous mode unchanged.
C10_OnlyListedPairs ==
    (last.op \in C10_Ops) =>
        /\ (vmode.current # last.pre.current) =>
               <<last.pre.current.tag, vmode.current.tag>> \in C10_Pairs
        /\ (<<last.pre.current.tag, last.arg.tag>> \notin C10_Pairs) => vmode = last.pre

\* C10 amended: a call for a pair of C10_Pairs, or for Normal -> Normal, is
\* accepted: the current mode becomes the requested one and the previous mode
\* the one left (so enter_normal in Normal keeps the mode Normal and sets the
\* previous mode to Normal); a call for any other pair leaves the current and
\* the previous mode, with a Command payload, unchanged.
C10_ListedPairsAndNormalToNormal ==
    (last.op \in C10_Ops) =>
        IF <<last.pre.current.tag, last.arg.tag>> \in C10_Pairs \cup {<<"Normal", "Normal">>}
        THEN vmode = [current |-> last.arg, previous |-> <<last.pre.current>>]
        ELSE vmode = last.pre

\* a request for an empty Command mode has just been refused in Command mode
\* holding the payload "q"
C10_Witness ==
    /\ last.op = "transition_to"
    /\ last.arg = Mode_Command(<< >>)
    /\ last.pre.current = Mode_Command(<<"q">>)
    /\ vmode = last.pre

\* C38: on a domain::ModeManager in Insert, Visual or Command mode one
\* transition_with_escape() returns true and leaves the mode Normal with
\* previous_mode the mode it left; in Normal mode it returns false and
\* leaves the current and the previous mode as they were.
C38_EscapeLeadsToNormal ==
    last.op = "transition_with_escape"
        => IF last.pre.current_mode \in {"Insert", "Visual", "Command"}
           THEN /\ last.ret
                /\ dmode.current_mode = "Normal"
                /\ dmode.previous_mode = <<last.pre.current_mode>>
           ELSE /\ last.pre.current_mode = "Normal"
                /\ ~last.ret
                /\ dmode = last.pre

\* Escape left a Command mode that was entered from Normal mode
C38_Witness ==
    /\ last.op = "transition_with_escape"
    /\ last.pre = [current_mode |-> "Command", previous_mode |-> <<"Normal">>]
    /\ last.ret
    /\ dmode = [current_mode |-> "Normal", previous_mode |-> <<"Command">>]

\* C39: vim::ModeManager::try_transition_to(target) returns Ok and makes the
\* transition (current is the target, previous the mode left) exactly when
\* can_transition_to(target) holds on the manager it is called on; otherwise
\* it returns InvalidModeTransition and leaves current and previous alone.
C39_TryTransitionTo ==
    last.op = "try_transition_to"
        => IF VimModeManager_can_transition_to(last.pre, last.arg)
           THEN /\ last.ret
                /\ vmode.current = last.arg
                /\ vmode.previous = <<last.pre.current>>
           ELSE /\ ~last.ret
                /\ VimModeManager_try_transition_to(last.pre, last.arg).err
                       = "InvalidModeTransition"
                /\ vmode = last.pre

\* try_transition_to(Command) refused in Insert mode
C39_Witness ==
    /\ last.op = "try_transition_to"
    /\ last.pre = [current |-> Mode_Insert, previous |-> <<Mode_Normal>>]
    /\ last.arg = Mode_Command(<<"q">>)
    /\ ~last.ret
    /\ vmode = last.pre


=============================================================================
